---- MODULE Spec2Model ----
(***************************************************************************)
(* A model of RAiDER's delay computation (src/delay.py): the ray sampler   *)
(* and trapezoidal integrator _common_delay, the thread dispatcher         *)
(* _parmap and delay_from_grid, which runs the two delay kinds either one  *)
(* after the other or as jobs of _parmap.                                  *)
(*                                                                         *)
(* numpy's float64 values are modelled as exact rationals <<n, d>> (d > 0, *)
(* lowest terms) extended with NaN == <<0, 0>> and the two infinities      *)
(* <<1, 0>> and <<-1, 0>>; rounding error is not modelled.  Delays are     *)
(* kept in units of 1e-6 m (the factor of line 81 is the unit).            *)
(***************************************************************************)
EXTENDS Integers, Sequences, FiniteSets, TLC

(***************************************************************************)
(* Bounds of the model.                                                    *)
(***************************************************************************)
\* largest os.cpu_count() explored
MaxCpu == 4
\* largest number of points (rays) of a parallel delay_from_grid call
MaxN == 2
\* largest number of work items of a direct _parmap call
MaxItems == 2
\* largest os.cpu_count() explored for parallel calls with look vectors,
\* whose workers take two more steps per job
MaxRaceCpu == 2

(***************************************************************************)
(* Program constants.                                                      *)
(***************************************************************************)
\* _step (delay.py:22), metres
Step == 1
\* _zref = util.zref (delay.py:25), metres, scaled down to keep rays short
Zref == 3

(***************************************************************************)
(* float64 arithmetic on extended rationals.                               *)
(***************************************************************************)
\* Op applied to the value of v, computed once
Bind(v, Op(_)) == CHOOSE r \in {Op(x) : x \in {v}} : TRUE

\* Op applied to the values of v and w, each computed once
Bind2(v, w, Op(_, _)) == CHOOSE r \in {Op(x, y) : x \in {v}, y \in {w}} : TRUE

Abs(i) == IF i < 0 THEN -i ELSE i

Sgn(i) == IF i < 0 THEN -1 ELSE IF i > 0 THEN 1 ELSE 0

RECURSIVE GCD(_, _)
GCD(a, b) == IF b = 0 THEN a ELSE Bind2(b, a % b, LAMBDA x, y : GCD(x, y))

NaN == <<0, 0>>

\* the float n/d: lowest terms, and n/0 is an infinity or NaN as in IEEE 754
Mk(num, den) ==
    Bind2(num, den, LAMBDA n, d :
        IF d = 0 THEN <<Sgn(n), 0>>
        ELSE Bind2(GCD(Abs(n), Abs(d)), IF d < 0 THEN -1 ELSE 1, LAMBDA g, s :
                 <<(s * n) \div g, (s * d) \div g>>))

R(i) == <<i, 1>>

IsNaN(a) == a = NaN

IsFinite(a) == a[2] # 0

RNeg(a) == <<-a[1], a[2]>>

RAdd(u, v) ==
    Bind2(u, v, LAMBDA a, b :
        IF IsNaN(a) \/ IsNaN(b) THEN NaN
        ELSE IF a[2] = 0 /\ b[2] = 0 THEN (IF a[1] = b[1] THEN a ELSE NaN)
        ELSE IF a[2] = 0 THEN a
        ELSE IF b[2] = 0 THEN b
        ELSE Mk(a[1] * b[2] + b[1] * a[2], a[2] * b[2]))

RSub(a, b) == RAdd(a, RNeg(b))

RMul(u, v) ==
    Bind2(u, v, LAMBDA a, b :
        IF IsNaN(a) \/ IsNaN(b) THEN NaN
        ELSE IF a[2] = 0 \/ b[2] = 0 THEN <<Sgn(a[1]) * Sgn(b[1]), 0>>
        ELSE Mk(a[1] * b[1], a[2] * b[2]))

RDiv(u, v) ==
    Bind2(u, v, LAMBDA a, b :
        IF IsNaN(a) \/ IsNaN(b) THEN NaN
        ELSE IF a[2] = 0 /\ b[2] = 0 THEN NaN
        ELSE IF a[2] = 0 THEN <<a[1] * (IF b[1] < 0 THEN -1 ELSE 1), 0>>
        ELSE IF b[2] = 0 THEN R(0)
        ELSE Mk(a[1] * b[2] * Sgn(b[1]), a[2] * Abs(b[1])))

\* a < b, false when either is NaN
RLt(u, v) ==
    Bind2(u, v, LAMBDA a, b :
        /\ ~IsNaN(a)
        /\ ~IsNaN(b)
        /\ IF a[2] = 0 /\ b[2] = 0 THEN a[1] < b[1]
           ELSE IF a[2] = 0 THEN a[1] < 0
           ELSE IF b[2] = 0 THEN b[1] > 0
           ELSE a[1] * b[2] < b[1] * a[2])

RLe(u, v) == Bind2(u, v, LAMBDA a, b : RLt(a, b) \/ (~IsNaN(a) /\ a = b))

\* np.ceil of a finite value, as an integer
RCeil(u) == Bind(u, LAMBDA a : -((-a[1]) \div a[2]))

ISqrt(n) == CHOOSE r \in 0..n : r * r = n

\* the square root of a finite square
RSqrt(u) == Bind(u, LAMBDA a : <<ISqrt(a[1]), ISqrt(a[2])>>)

\* an array held by value: the sequence f with every element computed
Arr(f) == f \o <<>>

RECURSIVE SumSeq(_)
SumSeq(s) ==
    IF s = <<>> THEN R(0) ELSE Bind(Tail(s), LAMBDA t : RAdd(s[1], SumSeq(t)))

(***************************************************************************)
(* Vectors of three floats.                                                *)
(***************************************************************************)
VScale(u, d) ==
    Bind2(u, d, LAMBDA v, c : <<RMul(v[1], c), RMul(v[2], c), RMul(v[3], c)>>)

VDiv(u, d) ==
    Bind2(u, d, LAMBDA v, c : <<RDiv(v[1], c), RDiv(v[2], c), RDiv(v[3], c)>>)

\* np.linalg.norm(v, axis=-1)
VNorm(u) ==
    Bind(u, LAMBDA v :
        IF \E k \in 1..3 : IsNaN(v[k]) THEN NaN
        ELSE IF \E k \in 1..3 : ~IsFinite(v[k]) THEN <<1, 0>>
        ELSE RSqrt(RAdd(RMul(v[1], v[1]),
                        RAdd(RMul(v[2], v[2]), RMul(v[3], v[3])))))

(***************************************************************************)
(* Helpers of util (cosd, sind, lla2ecef) and the weather object's         *)
(* interpolators, which _common_delay calls.                               *)
(***************************************************************************)
\* util.cosd on the angles the model uses (degrees)
Cosd(a) == CASE a = 0 -> R(1) [] a = 60 -> Mk(1, 2) [] a = 90 -> R(0)

\* util.sind on the angles the model uses (degrees)
Sind(a) == CASE a = 0 -> R(0) [] a = 30 -> Mk(1, 2) [] a = 90 -> R(1)

\* util.lla2ecef: the start position of a ray, kept as the point itself
lla2ecef(lat, lon, h) == <<lat, lon, h>>

\* weather.hydrostatic_delay / weather.wet_delay at one position: the field
\* fld gives a refractivity c + slope * r at distance r from the ray's start,
\* and NaN (outside the domain) for nanlo <= r <= nanhi
Interp(fld, kind, pos) ==
    Bind(VNorm(pos.off), LAMBDA r :
        IF RLe(R(fld.nanlo), r) /\ RLe(r, R(fld.nanhi)) THEN NaN
        ELSE RAdd(R(IF kind = "hydro" THEN fld.c + 1 ELSE fld.c),
                  RMul(R(fld.slope), r)))

(***************************************************************************)
(* _common_delay (delay.py:33-87).                                         *)
(***************************************************************************)
\* lines 42-45: the local vertical scaled to reach _zref
ZenithLook(lats, lons, heights) ==
    Arr([i \in 1..Len(lats) |->
        VScale(<<RMul(Cosd(lats[i]), Cosd(lons[i])),
                 RMul(Cosd(lats[i]), Sind(lons[i])),
                 Sind(lats[i])>>,
               RSub(R(Zref), heights[i]))])

\* line 48, right-hand side: look_vecs[...,2][...,np.newaxis] / _zref
ScaleTmp(look_vecs) ==
    Arr([i \in 1..Len(look_vecs) |-> RDiv(look_vecs[i][3], R(Zref))])

\* line 48, the in-place division look_vecs /= tmp
ScaleApply(look_vecs, tmp) ==
    Arr([i \in 1..Len(look_vecs) |-> VDiv(look_vecs[i], tmp[i])])

\* line 50
Lengths(look_vecs) == Arr([i \in 1..Len(look_vecs) |-> VNorm(look_vecs[i])])

\* a sampler that gives every ray at least one sample
StepsAtLeastOne(lengths) ==
    Arr([i \in 1..Len(lengths) |->
        IF RCeil(RDiv(lengths[i], R(Step))) < 1 THEN 1
        ELSE RCeil(RDiv(lengths[i], R(Step)))])

\* line 51: np.ceil(lengths / _step) as int64
Steps(lengths) == Arr([i \in 1..Len(lengths) |-> RCeil(RDiv(lengths[i], R(Step)))])

RECURSIVE CumSum(_, _)
CumSum(s, k) == IF k = 0 THEN 0 ELSE s[k] + CumSum(s, k - 1)

\* lines 52-56: np.cumsum, np.roll by one, indices[0] = 0
Indices(steps) ==
    Arr([i \in 1..Len(steps) |-> IF i = 1 THEN 0 ELSE CumSum(steps, i - 1)])

\* np.linspace(0, stop, num): num points, the last set to stop when num > 1
Linspace(stop, num) ==
    Arr([k \in 1..num |->
        IF num = 1 THEN R(0)
        ELSE IF k = num THEN stop
        ELSE RMul(R(k - 1), RDiv(stop, R(num - 1)))])

\* line 68: the positions of one ray
RayPositions(start, thisspace, scaled) ==
    Arr([k \in 1..Len(thisspace) |->
        [start |-> start, off |-> VScale(scaled, thisspace[k])]])

RECURSIVE Concat(_)
Concat(ss) ==
    IF ss = <<>> THEN <<>> ELSE Bind(Tail(ss), LAMBDA t : ss[1] \o Concat(t))

\* np.trapz(y, x)
Trapz(ys, xs) ==
    Bind2(ys, xs, LAMBDA y, x :
        Bind(Arr([k \in 1..(IF Len(x) = 0 THEN 0 ELSE Len(x) - 1) |->
                 RDiv(RMul(RSub(x[k + 1], x[k]), RAdd(y[k + 1], y[k])), R(2))]),
             LAMBDA terms : SumSeq(terms)))

\* chunk = wet_delays[start:start + length] (0-based start)
Slice(s, start, length) ==
    Arr([k \in 1..(IF start + length <= Len(s) THEN length
               ELSE IF start < Len(s) THEN Len(s) - start ELSE 0) |->
        s[start + k]])

\* lines 62-69: t_points_l, the path coordinates of every ray
TPoints(lengths, steps) ==
    Arr([i \in 1..Len(steps) |-> Linspace(lengths[i], steps[i])])

\* lines 58-71: positions_a, the positions of all rays in one buffer
Positions(lats, lons, heights, look_vecs, lengths, t_pts) ==
    Bind(Arr([i \in 1..Len(look_vecs) |->
                 RayPositions(lla2ecef(lats[i], lons[i], heights[i]),
                              t_pts[i],
                              VDiv(look_vecs[i], lengths[i]))]),
         LAMBDA rays : Concat(rays))

\* an integration that reads the samples of every ray at the buffer's start
RawDelaysFromStart(vals, indices, steps, t_pts) ==
    Arr([i \in 1..Len(steps) |-> Trapz(Slice(vals, 0, steps[i]), t_pts[i])])

\* lines 75-81: the integral of every ray over its chunk of the buffer
RawDelays(vals, indices, steps, t_pts) ==
    Arr([i \in 1..Len(steps) |->
            Trapz(Slice(vals, indices[i], steps[i]), t_pts[i])])

\* a _common_delay that drops the cosine correction
Uncorrected(raw, correction) == raw

\* lines 84-85
Corrected(raw, correction) ==
    IF correction = <<>> THEN raw
    ELSE Arr([i \in 1..Len(raw) |-> RMul(raw[i], correction[i])])

\* lines 50-87 for the look vectors as they are after lines 36-48; correction
\* is <<>> for None.  Gives the intermediate arrays with the delays.
Integrate(fld, kind, lats, lons, heights, look_vecs, correction) ==
    IF Len(look_vecs) = 0
    THEN [err |-> "IndexError", delays |-> <<>>, steps |-> <<>>,
          indices |-> <<>>, t_points |-> <<>>, values |-> <<>>,
          look_vecs |-> look_vecs]
    ELSE
    Bind(look_vecs, LAMBDA lv :
    Bind(Lengths(lv), LAMBDA lengths :
    Bind(Steps(lengths), LAMBDA steps :
    Bind(Indices(steps), LAMBDA indices :
    Bind(TPoints(lengths, steps), LAMBDA t_pts :
    Bind(Positions(lats, lons, heights, lv, lengths, t_pts), LAMBDA pos_a :
    Bind(Arr([k \in 1..Len(pos_a) |-> Interp(fld, kind, pos_a[k])]),
         LAMBDA vals :
    Bind(RawDelays(vals, indices, steps, t_pts), LAMBDA raw :
        [err |-> "none", delays |-> Corrected(raw, correction),
         steps |-> steps, indices |-> indices, t_points |-> t_pts,
         values |-> vals, look_vecs |-> lv]))))))))

\* the whole of _common_delay.  los is the line of sight: kind "Zenith",
\* kind "vecs" with the look vectors v (raytrace), or kind "incs" with the
\* incidence angles v (not raytrace).  look_vecs of the result holds the
\* look vectors the rays were built from; for kind "vecs" that is also the
\* caller's array as line 48 leaves it.
CommonDelay(fld, kind, lats, lons, heights, los, raytrace) ==
    LET correction ==
            IF raytrace THEN <<>>
            ELSE Arr([i \in 1..Len(los.v) |-> RDiv(R(1), Cosd(los.v[i]))])
        lv == IF ~raytrace \/ los.kind = "Zenith"
              THEN ZenithLook(lats, lons, heights)
              ELSE ScaleApply(los.v, ScaleTmp(los.v))
    IN  Integrate(fld, kind, lats, lons, heights, lv, correction)

\* hydrostatic_delay / wet_delay (lines 90-99)
KindDelay(fld, kind, lats, lons, heights, los, raytrace) ==
    CommonDelay(fld, kind, lats, lons, heights, los, raytrace)

(***************************************************************************)
(* Inputs.                                                                 *)
(***************************************************************************)
\* query points <<lat, lon, height>>: rays of length 3, 3/2, 1/2 and 0
Points ==
    {<<90, 0, h>> : h \in {R(0), Mk(3, 2), Mk(5, 2), R(3)}}
        \cup {<<0, 0, R(0)>>}

\* the points of the parallel calls: the first n of these
ParPoints ==
    <<(<<90, 0, R(0)>>), (<<90, 0, Mk(3, 2)>>), (<<0, 0, R(0)>>),
      (<<90, 0, Mk(5, 2)>>)>>

\* look vectors a caller supplies
LookVecs == {<<R(0), R(0), R(1)>>, <<R(0), R(3), R(4)>>}

\* incidence angles a caller supplies (degrees)
Incidences == {0, 60}

\* refractivity fields: constant or growing along the ray, with or without
\* a band of NaN
Fields ==
    {[c |-> 2, slope |-> sl, nanlo |-> b[1], nanhi |-> b[2]] :
        sl \in {0, 1}, b \in {<<1, 0>>, <<0, 0>>, <<2, 3>>}}

ParFields == {[c |-> 2, slope |-> 0, nanlo |-> 1, nanhi |-> 0]}

SeqsUpTo(S, n) == UNION {[1..k -> S] : k \in 0..n}

\* the work items of a direct _parmap call
Elems == {[type |-> "elem", start |-> x, end |-> x] : x \in {0, 1}}

\* the f of a direct _parmap call: raises on item 0
ElemF(e) == [err |-> IF e.start = 0 THEN "ValueError" ELSE "none",
             delays |-> <<R(10 + e.start)>>]

(***************************************************************************)
(* State.                                                                  *)
(***************************************************************************)
VARIABLES
    mode,       \* "seq": delay_from_grid(parallel=False); "par":
                \* delay_from_grid(parallel=True); "parmap": _parmap(f, i)
    ncpu,       \* os.cpu_count()
    llas,       \* the points, flattened
    los,        \* the caller's line-of-sight array, as it is now
    los_in,     \* the line of sight the caller passed
    raytrace,
    field,      \* the weather object
    items,      \* the sequence i of a direct _parmap call
    pc,         \* where the calling thread is
    nq,         \* work items the for loop of _parmap has taken from i
    q,          \* the queue of <<idx, elem>>
    answers,    \* the answer slots
    wk,         \* the worker threads
    nstart,     \* threads started
    njoin,      \* threads joined
    hydro,      \* delay_from_grid's hydro
    wet,        \* delay_from_grid's wet
    err,        \* the exception the calling thread raised, or "none"
    cd,         \* the arrays of the last _common_delay call of "seq"
    deq,        \* per item: times dequeued
    app,        \* per item: calls of f started
    wr,         \* per slot: writes
    wm,         \* the WeatherModel object with its disk (weatherModel.py),
                \* which no step of delay.py touches
    df,         \* a call of delay_from_files
    fn          \* a call of find_svp or of getHeights (dem.py)

vars == <<mode, ncpu, llas, los, los_in, raytrace, field, items, pc, nq, q,
          answers, wk, nstart, njoin, hydro, wet, err, cd, deq, app, wr, wm,
          df, fn>>

inputs == <<mode, ncpu, llas, los_in, raytrace, field, items, wm, df, fn>>

\* the state of delay.py
delay_vars == <<mode, ncpu, llas, los, los_in, raytrace, field, items, pc, nq,
                q, answers, wk, nstart, njoin, hydro, wet, err, cd, deq, app,
                wr>>

\* no weather model is in use
NoModel == [pc |-> "off"]

\* delay_from_files is not called
NoFiles == [pc |-> "off"]

\* neither find_svp nor getHeights is called on its own
NoApply == [pc |-> "off"]

None == [set |-> FALSE, val |-> <<>>]

NoElem == [type |-> "none", start |-> 0, end |-> 0]

NoCall == [err |-> "nocall", delays |-> <<>>, steps |-> <<>>,
           indices |-> <<>>, t_points |-> <<>>, values |-> <<>>,
           look_vecs |-> <<>>]

Lats == Arr([i \in 1..Len(llas) |-> llas[i][1]])

Lons == Arr([i \in 1..Len(llas) |-> llas[i][2]])

Hts == Arr([i \in 1..Len(llas) |-> llas[i][3]])

\* s[start:end] (0-based, end exclusive)
Cut(s, start, end) ==
    Arr([k \in 1..(IF end > start THEN end - start ELSE 0) |-> s[start + k]])

InitCommon ==
    /\ los = los_in
    /\ pc = IF mode = "seq" THEN "start" ELSE "enqueue"
    /\ nq = 0
    /\ q = <<>>
    /\ answers = <<>>
    /\ wk = [w \in 1..ncpu |-> [pc |-> "new", idx |-> 0, elem |-> NoElem, tmp |-> <<>>]]
    /\ nstart = 0
    /\ njoin = 0
    /\ hydro = <<>>
    /\ wet = <<>>
    /\ err = "none"
    /\ cd = NoCall
    /\ deq = <<>>
    /\ app = <<>>
    /\ wr = <<>>

\* the line-of-sight argument of a sequential call on n points with its
\* raytrace flag: Zenith or look vectors with raytrace, incidence angles
\* without
LosChoice(n) ==
    \/ los_in = [kind |-> "Zenith", v |-> <<>>] /\ raytrace = TRUE
    \/ \E l \in [1..n -> LookVecs] :
          los_in = [kind |-> "vecs", v |-> l] /\ raytrace = TRUE
    \/ \E l \in [1..n -> Incidences] :
          los_in = [kind |-> "incs", v |-> l] /\ raytrace = FALSE

\* the same of a parallel call
ParLosChoice(n) ==
    \/ los_in = [kind |-> "Zenith", v |-> <<>>] /\ raytrace = TRUE
    \/ /\ ncpu <= MaxRaceCpu
       /\ \E l \in [1..n -> LookVecs] :
             los_in = [kind |-> "vecs", v |-> l] /\ raytrace = TRUE
    \/ los_in = [kind |-> "incs", v |-> [i \in 1..n |-> 60]]
          /\ raytrace = FALSE

Init ==
    /\ \/ /\ mode = "seq"
          /\ ncpu = 1
          /\ llas \in SeqsUpTo(Points, MaxN)
          /\ field \in Fields
          /\ LosChoice(Len(llas))
          /\ items = <<>>
       \/ /\ mode = "par"
          /\ ncpu \in 1..MaxCpu
          /\ \E n \in 0..MaxN : llas = SubSeq(ParPoints, 1, n)
          /\ field \in ParFields
          /\ ParLosChoice(Len(llas))
          /\ items = <<>>
       \/ /\ mode = "parmap"
          /\ ncpu \in 1..MaxCpu
          /\ llas = <<>>
          /\ field \in ParFields
          /\ los_in = [kind |-> "Zenith", v |-> <<>>]
          /\ raytrace = TRUE
          /\ items \in SeqsUpTo(Elems, MaxItems)
    /\ InitCommon
    /\ wm = NoModel
    /\ df = NoFiles
    /\ fn = NoApply

(***************************************************************************)
(* delay_from_grid, sequential (lines 204-212).                            *)
(***************************************************************************)
\* the caller's los array after a _common_delay call that returned res
LosAfter(l, res) ==
    IF l.kind = "vecs" THEN [kind |-> "vecs", v |-> res.look_vecs] ELSE l

\* line 205
SeqHydro ==
    /\ mode = "seq"
    /\ pc = "start"
    /\ \E res \in {KindDelay(field, "hydro", Lats, Lons, Hts, los, raytrace)} :
           /\ cd' = res
           /\ los' = LosAfter(los, res)
           /\ IF res.err = "none"
              THEN hydro' = res.delays /\ pc' = "wet" /\ err' = err
              ELSE hydro' = hydro /\ pc' = "raised" /\ err' = res.err
    /\ UNCHANGED <<inputs, nq, q, answers, wk, nstart, njoin, wet, deq, app, wr>>

\* line 207
SeqWet ==
    /\ mode = "seq"
    /\ pc = "wet"
    /\ \E res \in {KindDelay(field, "wet", Lats, Lons, Hts, los, raytrace)} :
           /\ cd' = res
           /\ los' = LosAfter(los, res)
           /\ IF res.err = "none"
              THEN wet' = res.delays /\ pc' = "restore" /\ err' = err
              ELSE wet' = wet /\ pc' = "raised" /\ err' = res.err
    /\ UNCHANGED <<inputs, nq, q, answers, wk, nstart, njoin, hydro, deq, app, wr>>

\* lines 210-212: np.stack, reshape, return
Restore ==
    /\ mode \in {"seq", "par"}
    /\ pc = "restore"
    /\ IF Len(hydro) = Len(wet)
       THEN pc' = "done" /\ err' = err
       ELSE pc' = "raised" /\ err' = "ValueError"
    /\ UNCHANGED <<inputs, los, nq, q, answers, wk, nstart, njoin, hydro, wet,
                   cd, deq, app, wr>>

(***************************************************************************)
(* delay_from_grid, parallel: the jobs (lines 166-180).                    *)
(***************************************************************************)
\* np.linspace(0, stop, num, dtype=int)
LinspaceInt(stop, num) ==
    Arr([k \in 1..num |->
        IF num = 1 THEN 0
        ELSE IF k = num THEN stop
        ELSE ((k - 1) * stop) \div (num - 1)])

hydro_procs == ncpu \div 2

wet_procs == ncpu - hydro_procs

hindices == LinspaceInt(Len(llas), hydro_procs + 1)

windices == LinspaceInt(Len(llas), wet_procs + 1)

\* lines 176-177: hjobs, item i (0-based) of the generator
HJob(i) ==
    [err |-> "none",
     elem |-> [type |-> "hydro", start |-> hindices[i + 1],
               end |-> hindices[i + 2]]]

\* lines 178-179: wjobs, item i (0-based) of the generator, which indexes
\* hindices
WJob(i) ==
    IF i + 2 > Len(hindices)
    THEN [err |-> "IndexError", elem |-> NoElem]
    ELSE [err |-> "none",
          elem |-> [type |-> "wet", start |-> hindices[i + 1],
                    end |-> hindices[i + 2]]]

\* line 180: item k (0-based) of itertools.chain(hjobs, wjobs)
Job(k) == IF k < hydro_procs THEN HJob(k) ELSE WJob(k - hydro_procs)

\* the number of items of the sequence i that _parmap is given
NItems == IF mode = "parmap" THEN Len(items) ELSE hydro_procs + wet_procs

\* item k (0-based) of the sequence i that _parmap is given
Item(k) ==
    IF mode = "parmap" THEN [err |-> "none", elem |-> items[k + 1]]
    ELSE Job(k)

(***************************************************************************)
(* _parmap (lines 113-139).                                                *)
(***************************************************************************)
\* lines 119-121: one turn of the for loop, or its end
Put ==
    /\ pc = "enqueue"
    /\ IF nq = NItems
       THEN /\ pc' = "spawn"
            /\ UNCHANGED <<nq, q, answers, err, deq, app, wr>>
       ELSE IF Item(nq).err # "none"
       THEN /\ pc' = "raised"
            /\ err' = Item(nq).err
            /\ UNCHANGED <<nq, q, answers, deq, app, wr>>
       ELSE /\ q' = Append(q, <<nq, Item(nq).elem>>)
            /\ answers' = Append(answers, None)
            /\ nq' = nq + 1
            /\ deq' = Append(deq, 0)
            /\ app' = Append(app, 0)
            /\ wr' = Append(wr, 0)
            /\ UNCHANGED <<pc, err>>
    /\ UNCHANGED <<inputs, los, wk, nstart, njoin, hydro, wet, cd>>

\* lines 131-134: the threads are started one after the other
StartThread ==
    /\ pc = "spawn"
    /\ nstart' = nstart + 1
    /\ wk' = [wk EXCEPT ![nstart + 1].pc = "get"]
    /\ pc' = IF nstart + 1 = ncpu THEN "join" ELSE "spawn"
    /\ UNCHANGED <<inputs, los, nq, q, answers, njoin, hydro, wet, err, cd,
                   deq, app, wr>>

\* a caller that returns without waiting for the threads
JoinNoWait ==
    /\ pc = "join"
    /\ njoin' = ncpu
    /\ pc' = "returned"
    /\ UNCHANGED <<inputs, los, nq, q, answers, wk, nstart, hydro, wet, err,
                   cd, deq, app, wr>>

\* lines 136-139: join the threads in order, then return answers
Join ==
    /\ pc = "join"
    /\ wk[njoin + 1].pc \in {"done", "dead"}
    /\ njoin' = njoin + 1
    /\ pc' = IF njoin + 1 = ncpu THEN "returned" ELSE "join"
    /\ UNCHANGED <<inputs, los, nq, q, answers, wk, nstart, hydro, wet, err,
                   cd, deq, app, wr>>

\* lines 125-128 of go: q.get_nowait(), and break on queue.Empty
WorkerGet(w) ==
    /\ wk[w].pc = "get"
    /\ IF q = <<>>
       THEN /\ wk' = [wk EXCEPT ![w].pc = "done"]
            /\ UNCHANGED <<q, deq>>
       ELSE /\ wk' = [wk EXCEPT ![w].pc = "call", ![w].idx = Head(q)[1],
                                ![w].elem = Head(q)[2]]
            /\ q' = Tail(q)
            /\ deq' = [deq EXCEPT ![Head(q)[1] + 1] = @ + 1]
    /\ UNCHANGED <<inputs, los, pc, nq, answers, nstart, njoin, hydro, wet,
                   err, cd, app, wr>>

\* line 129: answers[i] = f(elem) once f has returned res; a raising f ends
\* the thread
Finish(w, res) ==
    IF res.err = "none"
    THEN /\ answers' = [answers EXCEPT ![wk[w].idx + 1] =
                            [set |-> TRUE, val |-> res.delays]]
         /\ wr' = [wr EXCEPT ![wk[w].idx + 1] = @ + 1]
         /\ wk' = [wk EXCEPT ![w].pc = "get"]
    ELSE /\ wk' = [wk EXCEPT ![w].pc = "dead"]
         /\ UNCHANGED <<answers, wr>>

\* the arrays go (lines 183-195) slices for a job
JobLats(e) == Cut(Lats, e.start, e.end)

JobLons(e) == Cut(Lons, e.start, e.end)

JobHts(e) == Cut(Hts, e.start, e.end)

\* f(elem) where it runs in one step: the f of a direct call, or go (lines
\* 183-196) on Zenith or on incidence angles
GoOrF(e) ==
    IF mode = "parmap" THEN ElemF(e)
    ELSE KindDelay(field, e.type, JobLats(e), JobLons(e), JobHts(e),
                   IF los.kind = "Zenith" THEN los
                   ELSE [kind |-> "incs", v |-> Cut(los.v, e.start, e.end)],
                   raytrace)

\* line 129, f(elem) is entered.  For look vectors, go runs _common_delay up
\* to the right-hand side of line 48 on its view los[start:end]; otherwise
\* the call runs to its end.
WorkerCall(w) ==
    /\ wk[w].pc = "call"
    /\ app' = [app EXCEPT ![wk[w].idx + 1] = @ + 1]
    /\ IF mode = "par" /\ los.kind = "vecs"
       THEN /\ wk' = [wk EXCEPT ![w].pc = "scale",
                         ![w].tmp = ScaleTmp(Cut(los.v, wk[w].elem.start,
                                                 wk[w].elem.end))]
            /\ UNCHANGED <<answers, wr>>
       ELSE \E res \in {GoOrF(wk[w].elem)} : Finish(w, res)
    /\ UNCHANGED <<inputs, los, pc, nq, q, nstart, njoin, hydro, wet, err, cd,
                   deq>>

\* line 48, the in-place division of the view los[start:end]
WorkerScale(w) ==
    /\ wk[w].pc = "scale"
    /\ LET e == wk[w].elem
       IN  los' = [los EXCEPT !.v =
                      [k \in 1..Len(los.v) |->
                          IF e.start < k /\ k <= e.end
                          THEN VDiv(los.v[k], wk[w].tmp[k - e.start])
                          ELSE los.v[k]]]
    /\ wk' = [wk EXCEPT ![w].pc = "integ"]
    /\ UNCHANGED <<inputs, pc, nq, q, answers, nstart, njoin, hydro, wet, err,
                   cd, deq, app, wr>>

\* lines 50-87 on the view, then line 129
WorkerInteg(w) ==
    /\ wk[w].pc = "integ"
    /\ \E res \in {Integrate(field, wk[w].elem.type, JobLats(wk[w].elem),
                            JobLons(wk[w].elem), JobHts(wk[w].elem),
                            Cut(los.v, wk[w].elem.start, wk[w].elem.end),
                            <<>>)} :
          Finish(w, res)
    /\ UNCHANGED <<inputs, los, pc, nq, q, nstart, njoin, hydro, wet, err, cd,
                   deq, app>>

(***************************************************************************)
(* delay_from_grid, parallel: collecting the results (lines 199-203).      *)
(***************************************************************************)
\* np.concatenate of a list of answer slots
Concatenate(slots) ==
    IF slots = <<>> \/ \E k \in 1..Len(slots) : ~slots[k].set
    THEN [err |-> "ValueError", val |-> <<>>]
    ELSE [err |-> "none",
          val |-> Concat([k \in 1..Len(slots) |-> slots[k].val])]

Collect ==
    /\ mode = "par"
    /\ pc = "returned"
    /\ LET h  == Concatenate(SubSeq(answers, 1, hydro_procs))
           wt == Concatenate(SubSeq(answers, hydro_procs + 1, Len(answers)))
       IN  IF h.err # "none" \/ wt.err # "none"
           THEN /\ pc' = "raised"
                /\ err' = "ValueError"
                /\ UNCHANGED <<hydro, wet>>
           ELSE /\ hydro' = h.val
                /\ wet' = wt.val
                /\ pc' = "restore"
                /\ err' = err
    /\ UNCHANGED <<inputs, los, nq, q, answers, wk, nstart, njoin, cd, deq,
                   app, wr>>


\* what delay_from_grid(parallel=False) returns for the inputs of this call
\* (lines 204-212): ok with both arrays, or not ok when it raises
SeqOutcome ==
    LET h  == KindDelay(field, "hydro", Lats, Lons, Hts, los_in, raytrace)
        w  == KindDelay(field, "wet", Lats, Lons, Hts, LosAfter(los_in, h),
                        raytrace)
    IN  IF h.err = "none" /\ w.err = "none"
        THEN [ok |-> TRUE, hydro |-> h.delays, wet |-> w.delays]
        ELSE [ok |-> FALSE, hydro |-> <<>>, wet |-> <<>>]

\* f(elem) of _parmap for item k (0-based) where f is a function of its
\* element alone: every call but go on look vectors, which go divides in place
FOf(k) ==
    LET e == Item(k).elem
    IN  IF mode = "parmap" THEN ElemF(e)
        ELSE KindDelay(field, e.type, JobLats(e), JobLons(e), JobHts(e),
                       IF los_in.kind = "Zenith" THEN los_in
                       ELSE [kind |-> "incs",
                             v |-> Cut(los_in.v, e.start, e.end)],
                       raytrace)

Next ==
    \/ SeqHydro
    \/ SeqWet
    \/ Restore
    \/ Put
    \/ StartThread
    \/ Join
    \/ \E w \in 1..ncpu : WorkerGet(w)
    \/ \E w \in 1..ncpu : WorkerCall(w)
    \/ \E w \in 1..ncpu : WorkerScale(w)
    \/ \E w \in 1..ncpu : WorkerInteg(w)
    \/ Collect

Spec == Init /\ [][Next]_vars

\* the calls that run _parmap
ParInit == Init /\ mode # "seq"

ParNext ==
    \/ Put
    \/ StartThread
    \/ Join
    \/ \E w \in 1..ncpu : WorkerGet(w)
    \/ \E w \in 1..ncpu : WorkerCall(w)
    \/ \E w \in 1..ncpu : WorkerScale(w)
    \/ \E w \in 1..ncpu : WorkerInteg(w)
    \/ Collect
    \/ Restore

\* the threads and the caller are scheduled: a step that can be taken is
\* taken in the end
FairSpec == ParInit /\ [][ParNext]_vars /\ WF_vars(ParNext)

(***************************************************************************)
(* WeatherModel (weatherModel.py): fetch with its time check, and load     *)
(* with the stages of the preparation pipeline.  Times are whole numbers,  *)
(* heights and field values are floats as above, a 3-D field is a sequence *)
(* of rows of columns of levels, field[y][x][z], and <<>> stands for None. *)
(***************************************************************************)
\* the latest time of a query; the clock reads MaxTime - 1
MaxTime == 7
\* rows (y) of the grid that load_weather reads
MaxRows == 5
\* columns (x) of the grid that load_weather reads
MaxCols == 3

\* _lag_time (weatherModel.py:50), scaled down to the model's times
LagTime == 2
\* Nextra of _get_ll_bounds as load calls it (weatherModel.py:197, 588)
Nextra == 2
\* the padding of _trimExtent (weatherModel.py:495-498)
TrimPad == 2
\* _k1, _k2, _k3 (weatherModel.py:28-30) as a subclass sets them
K1 == 1
K2 == 1
K3 == 50
\* _lat_res, _lon_res (weatherModel.py:37-38) as a subclass sets them
LatRes == 1
LonRes == 1

\* one end of _valid_range: a date, None or 'Present'
Date(v) == [kind |-> "date", v |-> v]

NoEnd == [kind |-> "None", v |-> 0]

Present == [kind |-> "Present", v |-> 0]

\* _valid_range: the 1-tuple of __init__ (lines 47-49), or the pair a
\* subclass sets
ValidRanges ==
    {<<Date(1)>>, <<Date(1), NoEnd>>, <<Date(1), Present>>,
     <<Date(1), Date(3)>>}

\* checkTime (lines 241-257): the error it raises, or "none"
checkTime(valid_range, time, now) ==
    IF Len(valid_range) < 2 THEN "IndexError"
    ELSE IF time < valid_range[1].v THEN "RuntimeError"
    ELSE IF /\ valid_range[2].kind # "None"
            /\ valid_range[2].kind # "Present"
            /\ valid_range[2].v < time
         THEN "RuntimeError"
    ELSE IF time > now - LagTime THEN "RuntimeError"
    ELSE "none"

\* array.shape of a 3-D field
Shape(a) == <<Len(a), Len(a[1]), Len(a[1][1])>>

\* the 3-D field whose column at row y, column x is Col(y, x)
Grid(ny, nx, Col(_, _)) ==
    Arr([y \in 1..ny |-> Arr([x \in 1..nx |-> Col(y, x)])])

\* the field a with Op applied to every column
MapCols(a, Op(_)) ==
    Arr([y \in 1..Len(a) |-> Arr([x \in 1..Len(a[y]) |-> Op(a[y][x])])])

\* some value of the field is NaN
HasNaN(a) ==
    \E y \in 1..Len(a) : \E x \in 1..Len(a[y]) :
        \E k \in 1..Len(a[y][x]) : IsNaN(a[y][x][k])

\* some value of the field is not NaN
HasFinite(a) ==
    \E y \in 1..Len(a) : \E x \in 1..Len(a[y]) :
        \E k \in 1..Len(a[y][x]) : ~IsNaN(a[y][x][k])

\* interpolate_along_axis for one column and one target height: linear
\* between the two native levels around z, fill_value (NaN) outside the
\* column's native range
Interp1(zs, vs, z) ==
    IF \E k \in 1..(Len(zs) - 1) : RLe(zs[k], z) /\ RLe(z, zs[k + 1])
    THEN LET k == CHOOSE j \in 1..(Len(zs) - 1) :
                      /\ RLe(zs[j], z) /\ RLe(z, zs[j + 1])
                      /\ \A i \in 1..(j - 1) :
                            ~(RLe(zs[i], z) /\ RLe(z, zs[i + 1]))
         IN  RAdd(vs[k],
                  RDiv(RMul(RSub(vs[k + 1], vs[k]), RSub(z, zs[k])),
                       RSub(zs[k + 1], zs[k])))
    ELSE NaN

\* interpolate_along_axis(zs, values, new_zs, axis=2, fill_value=np.nan),
\* new_zs being the levels new_z tiled over the columns
interpolate_along_axis(zs, values, new_z) ==
    Arr([y \in 1..Len(values) |-> Arr([x \in 1..Len(values[y]) |->
        Arr([k \in 1..Len(new_z) |->
            Interp1(zs[y][x], values[y][x], new_z[k])])])])

\* the distance between two levels
Dist(j, k) == IF j < k THEN k - j ELSE j - k

\* fillna3D for one column: a NaN takes the value of the nearest level of
\* the column that is not NaN; a column of NaN only stays as it is
FillCol(col) ==
    LET ok == {j \in 1..Len(col) : ~IsNaN(col[j])}
    IN  Arr([k \in 1..Len(col) |->
            IF ok = {} \/ k \in ok THEN col[k]
            ELSE col[CHOOSE j \in ok :
                         \A i \in ok : Dist(j, k) < Dist(i, k)
                                          \/ (Dist(j, k) = Dist(i, k) /\ j <= i)]])

\* fillna3D
fillna3D(a) == MapCols(a, FillCol)

\* the lowest level of a column said again below it
PadCol(col) == <<col[1]>> \o col

\* util.padLower
padLower(a) == MapCols(a, PadCol)

\* a[index1:index2, index3:index4, ...]
Window(a, index1, index2, index3, index4) ==
    Arr([y \in 1..(IF index2 > index1 THEN index2 - index1 ELSE 0) |->
        Cut(a[index1 + y], index3, index4)])

\* the field a with Op applied to every value
Map3(a, Op(_)) ==
    Arr([y \in 1..Len(a) |-> Arr([x \in 1..Len(a[y]) |->
        Arr([k \in 1..Len(a[y][x]) |-> Op(a[y][x][k])])])])

\* the field of Op(a, b) value by value
Zip3(a, b, Op(_, _)) ==
    Arr([y \in 1..Len(a) |-> Arr([x \in 1..Len(a[y]) |->
        Arr([k \in 1..Len(a[y][x]) |-> Op(a[y][x][k], b[y][x][k])])])])

\* t1 and t2 of find_svp (lines 936-937), kelvin
SvpT1 == Mk(27315, 100)

SvpT2 == Mk(25015, 100)

\* the temperatures of the model, kelvin: below the band of mixed phase, its
\* lower end, a quarter, a half and three quarters of the way up, its upper
\* end, and two above it
Temps ==
    {Mk(24015, 100), SvpT2, Mk(2559, 10), Mk(26165, 100), Mk(2674, 10),
     SvpT1, Mk(28015, 100), R(300)}

\* svpw of find_svp (line 941), hPa: the exponential is given by a table of
\* rounded values on the temperatures the model uses
Svpw(t) ==
    CASE t = R(300) -> R(36)
      [] t = Mk(28015, 100) -> R(10)
      [] t = SvpT1 -> Mk(61121, 10000)
      [] t = Mk(2674, 10) -> R(4)
      [] t = Mk(26165, 100) -> Mk(25, 10)
      [] t = Mk(2559, 10) -> Mk(16, 10)
      [] t = SvpT2 -> Mk(9, 10)
      [] t = Mk(24015, 100) -> Mk(4, 10)
      [] OTHER -> NaN

\* svpi of find_svp (line 942), hPa, by a table likewise
Svpi(t) ==
    CASE t = R(300) -> R(46)
      [] t = Mk(28015, 100) -> Mk(107, 10)
      [] t = SvpT1 -> Mk(61121, 10000)
      [] t = Mk(2674, 10) -> Mk(38, 10)
      [] t = Mk(26165, 100) -> Mk(23, 10)
      [] t = Mk(2559, 10) -> Mk(13, 10)
      [] t = SvpT2 -> Mk(8, 10)
      [] t = Mk(24015, 100) -> Mk(3, 10)
      [] OTHER -> NaN

\* 2 to the power k, k >= 0
RECURSIVE Pow2(_)
Pow2(k) == IF k = 0 THEN 1 ELSE 2 * Pow2(k - 1)

\* the binary exponent e of n / d >= 1: 2^e <= n / d < 2^(e + 1), from e up
RECURSIVE Exponent(_, _, _)
Exponent(n, d, e) ==
    IF n < Pow2(e + 1) * d THEN e ELSE Exponent(n, d, e + 1)

\* m / d rounded to the nearest whole number, halves to the even one
RoundHalfEven(m, d) ==
    Bind2(m \div d, m % d, LAMBDA lo, r :
        IF 2 * r > d \/ (2 * r = d /\ lo % 2 = 1) THEN lo + 1 ELSE lo)

\* astype(np.float32) (line 951) of a value that is 0, not finite, or of a
\* size between 1 and 2^23: 24 significant bits are kept
AsFloat32(v) ==
    IF ~IsFinite(v) \/ v[1] = 0 THEN v
    ELSE Bind(Exponent(Abs(v[1]), v[2], 0), LAMBDA e :
            Mk(Sgn(v[1]) * RoundHalfEven(Abs(v[1]) * Pow2(23 - e), v[2]),
               Pow2(23 - e)))

\* a find_svp that weights by the distance from t1
Svp1FromT1(t) ==
    LET wgt == RDiv(RSub(t, SvpT1), RSub(SvpT1, SvpT2))
        svp == RAdd(Svpi(t), RMul(RSub(Svpw(t), Svpi(t)), RMul(wgt, wgt)))
    IN  RMul(IF RLt(SvpT1, t) THEN Svpw(t)
             ELSE IF RLt(t, SvpT2) THEN Svpi(t)
             ELSE svp,
             R(100))

\* a find_svp that weights linearly
Svp1Linear(t) ==
    LET wgt == RDiv(RSub(t, SvpT2), RSub(SvpT1, SvpT2))
        svp == RAdd(Svpi(t), RMul(RSub(Svpw(t), Svpi(t)), wgt))
    IN  RMul(IF RLt(SvpT1, t) THEN Svpw(t)
             ELSE IF RLt(t, SvpT2) THEN Svpi(t)
             ELSE svp,
             R(100))

\* find_svp (lines 936-950) at one temperature, before the cast
Svp1(t) ==
    LET wgt == RDiv(RSub(t, SvpT2), RSub(SvpT1, SvpT2))
        svp == RAdd(Svpi(t), RMul(RSub(Svpw(t), Svpi(t)), RMul(wgt, wgt)))
    IN  RMul(IF RLt(SvpT1, t) THEN Svpw(t)
             ELSE IF RLt(t, SvpT2) THEN Svpi(t)
             ELSE svp,
             R(100))

\* find_svp (lines 919-951)
find_svp(t) == Map3(t, LAMBDA v : AsFloat32(Svp1(v)))

\* _R_v and _R_d (lines 56-57)
R_v == Mk(461524, 1000)

R_d == Mk(28706, 100)

\* _find_e_from_q (lines 283-288)
find_e_from_q(w) ==
    [w EXCEPT !.e =
        Zip3(Zip3(w.q, w.q, LAMBDA qa, qb : RDiv(qa, RSub(R(1), qb))),
             Zip3(w.p, find_svp(w.t), RSub),
             LAMBDA mix, dp : RDiv(RMul(RMul(mix, R_v), dp), R_d))]

\* _find_e_from_rh (lines 290-293)
find_e_from_rh(w) ==
    [w EXCEPT !.e =
        Zip3(w.rh, find_svp(w.t),
             LAMBDA rh, svp : RMul(RDiv(rh, R(100)), svp))]

\* a find_e that clears q and rh before it looks at the humidity type
find_e_clearing_first(w) ==
    IF w.humidity \in {"rh", "q"}
    THEN [(IF w.humidity = "rh" THEN find_e_from_rh(w) ELSE find_e_from_q(w))
             EXCEPT !.rh = <<>>, !.q = <<>>]
    ELSE [w EXCEPT !.rh = <<>>, !.q = <<>>, !.err = "RuntimeError"]

\* _find_e (lines 272-281)
find_e(w) ==
    IF w.humidity = "rh"
    THEN [find_e_from_rh(w) EXCEPT !.rh = <<>>, !.q = <<>>]
    ELSE IF w.humidity = "q"
    THEN [find_e_from_q(w) EXCEPT !.rh = <<>>, !.q = <<>>]
    ELSE [w EXCEPT !.err = "RuntimeError"]

\* _uniform_in_z (lines 638-671) with the target levels w.zlevels; xs and ys
\* are sorted and without repeats already
uniform_in_z(w) ==
    [w EXCEPT !.t = interpolate_along_axis(w.zs, w.t, w.zlevels),
              !.p = interpolate_along_axis(w.zs, w.p, w.zlevels),
              !.e = interpolate_along_axis(w.zs, w.e, w.zlevels),
              !.lats = interpolate_along_axis(w.zs, w.lats, w.zlevels),
              !.lons = interpolate_along_axis(w.zs, w.lons, w.zlevels),
              !.zs = w.zlevels]

\* a NaN-fill that fills the coordinates too
checkForNansAll(w) ==
    [w EXCEPT !.p = fillna3D(w.p), !.t = fillna3D(w.t), !.e = fillna3D(w.e),
              !.lats = fillna3D(w.lats), !.lons = fillna3D(w.lons)]

\* _checkForNans (lines 673-679)
checkForNans(w) ==
    [w EXCEPT !.p = fillna3D(w.p), !.t = fillna3D(w.t), !.e = fillna3D(w.e)]

\* _get_wet_refractivity (lines 295-299)
get_wet_refractivity(w) ==
    [w EXCEPT !.wet =
        Zip3(w.e, w.t, LAMBDA e, t :
            RAdd(RDiv(RMul(R(K2), e), t),
                 RDiv(RMul(R(K3), e), RMul(t, t))))]

\* _get_hydro_refractivity (lines 301-305)
get_hydro_refractivity(w) ==
    [w EXCEPT !.hyd = Zip3(w.p, w.t, LAMBDA pp, t : RDiv(RMul(R(K1), pp), t))]

\* np.nanmin / np.nanmax of a set of values (NaN when none is finite)
NanMin(S) ==
    LET F == {v \in S : ~IsNaN(v)}
    IN  IF F = {} THEN NaN ELSE CHOOSE m \in F : \A o \in F : RLe(m, o)

NanMax(S) ==
    LET F == {v \in S : ~IsNaN(v)}
    IN  IF F = {} THEN NaN ELSE CHOOSE m \in F : \A o \in F : RLe(o, m)

\* the values of a 1-D array and of a 3-D field
Values1(a) == {a[i] : i \in 1..Len(a)}

Values3(a) ==
    UNION {UNION {Values1(a[y][x]) : x \in 1..Len(a[y])} : y \in 1..Len(a)}

\* _getExtent (lines 361-374) for non-empty lats and lons
getExtent(lats, lons) ==
    IF Len(lats) = 1 /\ Len(lons) = 1
    THEN <<RSub(lats[1], R(LatRes)), RAdd(lats[1], R(LatRes)),
           RSub(lons[1], R(LonRes)), RAdd(lons[1], R(LonRes))>>
    ELSE IF Len(lats) > 1 /\ Len(lons) > 1
    THEN <<NanMin(Values1(lats)), NanMax(Values1(lats)),
           NanMin(Values1(lons)), NanMax(Values1(lons))>>
    ELSE IF Len(lats) = 1
    THEN <<RSub(lats[1], R(LatRes)), RAdd(lats[1], R(LatRes)),
           NanMin(Values1(lons)), NanMax(Values1(lons))>>
    ELSE <<NanMin(Values1(lats)), NanMax(Values1(lats)),
           RSub(lons[1], R(LonRes)), RAdd(lons[1], R(LonRes))>>

\* line 485-486: the node of row y, column x lies strictly inside the extent
InExtent(w, extent, y, x) ==
    /\ RLt(extent[1], w.lats[y][x][1])
    /\ RLt(w.lats[y][x][1], extent[2])
    /\ RLt(extent[3], w.lons[y][x][1])
    /\ RLt(w.lons[y][x][1], extent[4])

\* lines 487-488: the rows and the columns with a node inside the extent
MaskRows(w, extent) ==
    {y \in 1..Len(w.lats) : \E x \in 1..Len(w.lats[y]) : InExtent(w, extent, y, x)}

MaskCols(w, extent) ==
    {x \in 1..Len(w.lats[1]) : \E y \in 1..Len(w.lats) : InExtent(w, extent, y, x)}

SetMin(S) == CHOOSE m \in S : \A o \in S : m <= o

SetMax(S) == CHOOSE m \in S : \A o \in S : o <= m

\* lines 494-498: index1, index2, index3, index4 (0-based, as in the code)
TrimIndices(w, extent) ==
    LET ny == Shape(w.p)[1]
        nx == Shape(w.p)[2]
        r1 == SetMin(MaskRows(w, extent)) - 1
        r2 == SetMax(MaskRows(w, extent)) - 1
        c1 == SetMin(MaskCols(w, extent)) - 1
        c2 == SetMax(MaskCols(w, extent)) - 1
    IN  <<IF r1 - TrimPad > 0 THEN r1 - TrimPad ELSE 0,
          IF r2 + TrimPad < ny THEN r2 + TrimPad ELSE ny,
          IF c1 - TrimPad > 0 THEN c1 - TrimPad ELSE 0,
          IF c2 + TrimPad < nx THEN c2 + TrimPad ELSE nx>>

\* _trimExtent (lines 481-510)
trimExtent(w, extent) ==
    IF MaskRows(w, extent) = {} /\ MaskCols(w, extent) = {} THEN w
    ELSE Bind(TrimIndices(w, extent), LAMBDA ix :
        [w EXCEPT !.lons = Window(w.lons, ix[1], ix[2], ix[3], ix[4]),
                  !.lats = Window(w.lats, ix[1], ix[2], ix[3], ix[4]),
                  !.xs = Cut(w.xs, ix[3], ix[4]),
                  !.ys = Cut(w.ys, ix[1], ix[2]),
                  !.p = Window(w.p, ix[1], ix[2], ix[3], ix[4]),
                  !.t = Window(w.t, ix[1], ix[2], ix[3], ix[4]),
                  !.e = Window(w.e, ix[1], ix[2], ix[3], ix[4]),
                  !.wet = Window(w.wet, ix[1], ix[2], ix[3], ix[4]),
                  !.hyd = Window(w.hyd, ix[1], ix[2], ix[3], ix[4])])

\* a padding that leaves the latitudes and longitudes as they are
PadFieldsOnly(w) ==
    [w EXCEPT !.zs = <<w.zmin>> \o w.zs,
              !.p = padLower(w.p),
              !.t = padLower(w.t),
              !.e = padLower(w.e),
              !.wet = padLower(w.wet),
              !.hyd = padLower(w.hyd)]

\* lines 323-332: the new level at zmin with the lowest level said again
PadAtZmin(w) ==
    [w EXCEPT !.zs = <<w.zmin>> \o w.zs,
              !.lons = MapCols(w.lons, PadCol),
              !.lats = MapCols(w.lats, PadCol),
              !.p = padLower(w.p),
              !.t = padLower(w.t),
              !.e = padLower(w.e),
              !.wet = padLower(w.wet),
              !.hyd = padLower(w.hyd)]

\* an _adjust_grid that pads below every grid
adjust_grid_always(w) ==
    IF w.outLats # <<>>
    THEN Bind(PadAtZmin(w), LAMBDA padded :
             trimExtent(padded, getExtent(w.outLats, w.outLons)))
    ELSE PadAtZmin(w)

\* an _adjust_grid that pads also when the lowest level is at zmin
adjust_grid_at_or_below(w) ==
    IF RLe(w.zmin, NanMin(Values1(w.zs)))
    THEN IF w.outLats # <<>>
         THEN Bind(PadAtZmin(w), LAMBDA padded :
                  trimExtent(padded, getExtent(w.outLats, w.outLons)))
         ELSE PadAtZmin(w)
    ELSE w

\* _adjust_grid (lines 313-335) with lats, lons the outLats, outLons of load
adjust_grid(w) ==
    IF RLt(w.zmin, NanMin(Values1(w.zs)))
    THEN IF w.outLats # <<>>
         THEN Bind(PadAtZmin(w), LAMBDA padded :
                  trimExtent(padded, getExtent(w.outLats, w.outLons)))
         ELSE PadAtZmin(w)
    ELSE w

\* lines 351-357 for one column: the integral from each level to the top
ZTDCol(col, zs) ==
    Arr([l \in 1..Len(col) |->
        Trapz(Cut(col, l - 1, Len(col)), Cut(zs, l - 1, Len(zs)))])

\* a _getZTD that integrates up to zref only
getZTDBelowZref(w, zref) ==
    LET top == Cardinality({k \in 1..Len(w.zs) : RLe(w.zs[k], zref)})
    IN  [w EXCEPT
           !.wet_ztd = MapCols(w.wet, LAMBDA col :
                           ZTDCol(Cut(col, 0, top), Cut(w.zs, 0, top))
                               \o [k \in 1..(Len(col) - top) |-> R(0)]),
           !.hyd_ztd = MapCols(w.hyd, LAMBDA col :
                           ZTDCol(Cut(col, 0, top), Cut(w.zs, 0, top))
                               \o [k \in 1..(Len(col) - top) |-> R(0)])]

\* _getZTD (lines 337-359), delays in units of 1e-6
getZTD(w, zref) ==
    [w EXCEPT !.wet_ztd = MapCols(w.wet, LAMBDA col : ZTDCol(col, w.zs)),
              !.hyd_ztd = MapCols(w.hyd, LAMBDA col : ZTDCol(col, w.zs))]

\* the bounds of the raw file that the bbox property reads (lines 394-402):
\* xmin, ymin, xmax, ymax of the grid of load_weather
bbox == <<R(1), R(1), R(MaxCols), R(MaxRows)>>

\* the values of outLats or outLons as load passes them on; {} stands for None
Given(arg) == IF arg = <<>> THEN {} ELSE Values1(arg)

\* whether _get_ll_bounds reads the bbox property (lines 593-596)
UsesBbox(w, lats) == lats = {} /\ w.lats = <<>>

\* _get_ll_bounds (lines 588-607): lat_min, lat_max, lon_min, lon_max
get_ll_bounds(w, lats, lons, nextra) ==
    IF UsesBbox(w, lats) THEN <<bbox[2], bbox[4], bbox[1], bbox[3]>>
    ELSE LET la == IF lats = {} THEN Values3(w.lats) ELSE lats
             lo == IF lats = {} THEN Values3(w.lons) ELSE lons
         IN  <<RSub(NanMin(la), R(nextra * LatRes)),
               RAdd(NanMax(la), R(nextra * LatRes)),
               RSub(NanMin(lo), R(nextra * LonRes)),
               RAdd(NanMax(lo), R(nextra * LonRes))>>

\* '{:.0f}'.format(np.ceil(np.abs(b))) of lines 893-900
CeilAbs(b) ==
    IF ~IsFinite(b) THEN -1 ELSE RCeil(IF RLt(b, R(0)) THEN RNeg(b) ELSE b)

\* _Name of the model
Name == "WM"

\* make_weather_model_filename (lines 875-903)
make_weather_model_filename(name, time, ll_bounds) ==
    <<name, time,
      CeilAbs(ll_bounds[1]), IF RLt(ll_bounds[1], R(0)) THEN "S" ELSE "N",
      CeilAbs(ll_bounds[2]), IF RLt(ll_bounds[2], R(0)) THEN "S" ELSE "N",
      CeilAbs(ll_bounds[3]), IF RLt(ll_bounds[3], R(0)) THEN "W" ELSE "E",
      CeilAbs(ll_bounds[4]), IF RLt(ll_bounds[4], R(0)) THEN "W" ELSE "E">>

\* out_file (lines 681-693): lats and lons default to the grid's own, and
\* _get_ll_bounds is called with its default Nextra
out_file(w, lats, lons) ==
    LET la == IF lats = {} /\ w.lats # <<>> THEN Values3(w.lats) ELSE lats
        lo == IF lons = {} /\ w.lons # <<>> THEN Values3(w.lons) ELSE lons
    IN  make_weather_model_filename(Name, w.time,
                                    get_ll_bounds(w, la, lo, Nextra))

\* the error out_file ends with, or "none": the bbox property without files
\* (line 392), strftime of a time that is None (line 890)
out_file_error(w, lats) ==
    IF UsesBbox(w, lats) /\ ~w.files THEN "ValueError"
    ELSE IF w.time = -1 THEN "AttributeError"
    ELSE "none"

\* the calls of load on one model object
MaxLoads == 2

\* the column of the grid whose lowest native level lies above the others'
HighColumn(y, x) == y = 1 /\ x = 1

\* the native heights of load_weather, column by column
NativeZs ==
    Grid(MaxRows, MaxCols, LAMBDA y, x :
        IF HighColumn(y, x) THEN <<R(5), R(10)>> ELSE <<R(0), R(10)>>)

\* the field of load_weather that has the value Val(z) at the height z
NativeField(Val(_)) ==
    Grid(MaxRows, MaxCols, LAMBDA y, x :
        IF HighColumn(y, x) THEN <<Val(5), Val(10)>> ELSE <<Val(0), Val(10)>>)

\* load_weather of a model class: pressure falling with height, constant
\* temperature, relative humidity for the type 'rh' and specific humidity
\* for any other type, and the node of row y and column x at latitude y and
\* longitude x
load_weather(w) ==
    [w EXCEPT !.zs = NativeZs,
              !.p = NativeField(LAMBDA z : R(900 - 60 * z)),
              !.t = NativeField(LAMBDA z : R(300)),
              !.q = IF w.humidity # "rh"
                    THEN NativeField(LAMBDA z : R(0)) ELSE <<>>,
              !.rh = IF w.humidity = "rh"
                     THEN NativeField(LAMBDA z : R(50)) ELSE <<>>,
              !.lats = Grid(MaxRows, MaxCols, LAMBDA y, x : <<R(y), R(y)>>),
              !.lons = Grid(MaxRows, MaxCols, LAMBDA y, x : <<R(x), R(x)>>),
              !.xs = Arr([x \in 1..MaxCols |-> R(x)]),
              !.ys = Arr([y \in 1..MaxRows |-> R(y)])]

\* the object after __init__ (lines 26-81) and the subclass's settings, with
\* the arguments of the calls to come; mf: the subclass's _fetch calls
\* filename(), which sets self.files (line 713)
NewModel(valid_range, qtime, humidity, zmin, zlevels, lats, lons, zref, mf) ==
    [pc |-> "new", ferr |-> "none", err |-> "none",
     valid_range |-> valid_range, qtime |-> qtime, now |-> MaxTime - 1,
     time |-> -1, nfetch |-> 0, files |-> FALSE, makes_files |-> mf,
     humidity |-> humidity, zmin |-> zmin, zlevels |-> zlevels,
     outLats |-> lats, outLons |-> lons, zref |-> zref,
     disk |-> {}, out_name |-> <<>>, ret |-> <<>>, ll_bounds |-> <<>>,
     zs |-> <<>>, xs |-> <<>>, ys |-> <<>>, p |-> <<>>, t |-> <<>>,
     e |-> <<>>, q |-> <<>>, rh |-> <<>>, lats |-> <<>>, lons |-> <<>>,
     wet |-> <<>>, hyd |-> <<>>, wet_ztd |-> <<>>, hyd_ztd |-> <<>>,
     log |-> <<>>, nload |-> 0, origin |-> <<>>]

\* the humidity types a model class declares, one of them unknown
HumidityTypes == {"q", "rh", "sh"}

\* _zmin of the model, below, at and above the lowest level
Zmins == {R(-5), R(0), R(5)}

\* _zlevels of the model
ZLevels == {<<R(0), R(10)>>, <<R(0), R(5), R(10)>>, <<R(5), R(10)>>}

\* outLats and outLons of load: None, a box, a point, a box at the corner
\* of the grid, more than the grid, and a box off the grid
Queries ==
    {<<<<>>, <<>>>>,
     <<<<R(2), R(4)>>, <<R(1), R(3)>>>>,
     <<<<R(3)>>, <<R(2)>>>>,
     <<<<R(MaxRows - 1), R(MaxRows + 1)>>, <<R(MaxCols - 1), R(MaxCols + 1)>>>>,
     <<<<R(0), R(MaxRows + 1)>>, <<R(0), R(MaxCols + 1)>>>>,
     <<<<R(20), R(21)>>, <<R(20), R(21)>>>>}

\* zref of load
Zrefs == {R(5), R(10)}

\* queries between the nodes of the grid, lats then lons
FineQueries ==
    {<<<<Mk(32, 10), Mk(62, 10)>>, <<R(1), R(3)>>>>,
     <<<<Mk(37, 10), Mk(65, 10)>>, <<R(1), R(3)>>>>,
     <<<<Mk(32, 10), Mk(65, 10)>>, <<R(1), R(3)>>>>,
     <<<<R(2), R(4)>>, <<R(1), R(3)>>>>}

\* a model with the prepared grid on disk that an earlier run has written
\* for the query lats, lons at the same time; origin keeps the bounds the
\* file was made for
PrecachedFor(w, lats, lons) ==
    [w EXCEPT !.disk = {out_file([w EXCEPT !.time = w.qtime],
                                 Given(lats), Given(lons))},
              !.origin = get_ll_bounds(w, Given(lats), Given(lons), Nextra)]

\* a model whose prepared grid of an earlier run is on disk
Precached(w) == PrecachedFor(w, w.outLats, w.outLons)

\* the fields of the grid
GridFields(w) ==
    <<w.p, w.t, w.e, w.lats, w.lons, w.zs, w.wet, w.hyd, w.wet_ztd,
      w.hyd_ztd>>

\* fetch (lines 118-127); checkLL changes the query at the poles only
Fetch ==
    /\ wm.pc = "new"
    /\ wm' = IF checkTime(wm.valid_range, wm.qtime, wm.now) # "none"
             THEN [wm EXCEPT !.pc = "fetch_raised",
                             !.ferr = checkTime(wm.valid_range, wm.qtime,
                                                wm.now)]
             ELSE [wm EXCEPT !.pc = "fetched",
                             !.time = wm.qtime,
                             !.nfetch = wm.nfetch + 1,
                             !.files = wm.makes_files]
    /\ UNCHANGED <<delay_vars, df, fn>>

\* an os.path.exists that finds no file
path_exists_never(w, f) == FALSE

\* os.path.exists of line 188
path_exists(w, f) == f \in w.disk

\* load up to load_weather (lines 187-201)
LoadStart ==
    /\ wm.pc \in {"fetched", "fetch_raised", "loaded", "written"}
    /\ wm.nload < MaxLoads
    /\ wm' =
         IF out_file_error(wm, Given(wm.outLats)) # "none"
         THEN [wm EXCEPT !.pc = "raised", !.nload = wm.nload + 1,
                         !.log = <<>>,
                         !.err = out_file_error(wm, Given(wm.outLats))]
         ELSE Bind(out_file(wm, Given(wm.outLats), Given(wm.outLons)),
                LAMBDA f :
                  IF path_exists(wm, f)
                  THEN [wm EXCEPT !.pc = "hit", !.nload = wm.nload + 1,
                                  !.log = <<>>, !.out_name = f, !.ret = f]
                  ELSE [load_weather(wm) EXCEPT
                           !.pc = "find_e", !.nload = wm.nload + 1,
                           !.out_name = f, !.ret = <<>>,
                           !.ll_bounds = get_ll_bounds(wm, Given(wm.outLats),
                                                     Given(wm.outLons), 2),
                           !.log = <<"load_weather">>])
    /\ UNCHANGED <<delay_vars, df, fn>>

\* line 204
FindE ==
    /\ wm.pc = "find_e"
    /\ wm' = Bind(find_e(wm), LAMBDA w :
                 IF w.err # "none" THEN [w EXCEPT !.pc = "raised"]
                 ELSE [w EXCEPT !.pc = "uniform_in_z",
                                !.log = Append(wm.log, "find_e")])
    /\ UNCHANGED <<delay_vars, df, fn>>

\* line 205
UniformInZ ==
    /\ wm.pc = "uniform_in_z"
    /\ wm' = [uniform_in_z(wm) EXCEPT !.pc = "checkForNans",
                                      !.log = Append(wm.log, "uniform_in_z")]
    /\ UNCHANGED <<delay_vars, df, fn>>

\* line 206
CheckForNans ==
    /\ wm.pc = "checkForNans"
    /\ wm' = [checkForNans(wm) EXCEPT !.pc = "wet",
                                      !.log = Append(wm.log, "checkForNans")]
    /\ UNCHANGED <<delay_vars, df, fn>>

\* line 207
WetRefractivity ==
    /\ wm.pc = "wet"
    /\ wm' = [get_wet_refractivity(wm) EXCEPT
                 !.pc = "hydro",
                 !.log = Append(wm.log, "get_wet_refractivity")]
    /\ UNCHANGED <<delay_vars, df, fn>>

\* line 208
HydroRefractivity ==
    /\ wm.pc = "hydro"
    /\ wm' = [get_hydro_refractivity(wm) EXCEPT
                 !.pc = "adjust_grid",
                 !.log = Append(wm.log, "get_hydro_refractivity")]
    /\ UNCHANGED <<delay_vars, df, fn>>

\* line 209
AdjustGrid ==
    /\ wm.pc = "adjust_grid"
    /\ wm' = [adjust_grid(wm) EXCEPT !.pc = "getZTD",
                                     !.log = Append(wm.log, "adjust_grid")]
    /\ UNCHANGED <<delay_vars, df, fn>>

\* lines 212-213
GetZTD ==
    /\ wm.pc = "getZTD"
    /\ wm' = [getZTD(wm, wm.zref) EXCEPT !.pc = "loaded", !.ret = <<>>,
                                         !.log = Append(wm.log, "getZTD")]
    /\ UNCHANGED <<delay_vars, df, fn>>

\* a write that makes no file
WriteNothing ==
    /\ wm.pc = "loaded"
    /\ wm' = [wm EXCEPT !.pc = "written"]
    /\ UNCHANGED <<delay_vars, df, fn>>

\* write (lines 715-872), called on a loaded model: the file is made at
\* line 734, before the spacing of xs and ys is read at line 741
Write ==
    /\ wm.pc = "loaded"
    /\ wm' = IF Len(wm.xs) < 2 \/ Len(wm.ys) < 2
             THEN [wm EXCEPT !.pc = "raised", !.err = "IndexError",
                             !.disk = wm.disk \cup {wm.out_name}]
             ELSE [wm EXCEPT !.pc = "written",
                             !.disk = wm.disk \cup {wm.out_name}]
    /\ UNCHANGED <<delay_vars, df, fn>>

\* the times of a query that fetch accepts under a range without an end
GoodTimes == {2, 3}

\* a model object before fetch: either the time check or the grid is looked
\* at in all its cases
WmInit ==
    /\ mode = "wm"
    /\ ncpu = 1
    /\ llas = <<>>
    /\ field \in ParFields
    /\ los_in = [kind |-> "Zenith", v |-> <<>>]
    /\ raytrace = TRUE
    /\ items = <<>>
    /\ InitCommon
    /\ df = NoFiles
    /\ fn = NoApply
    /\ \/ \E valid_range \in ValidRanges, qtime \in 0..MaxTime,
            query \in {qu \in Queries : Len(qu[1]) # 1} :
            wm = NewModel(valid_range, qtime, "rh", R(-5), <<R(0), R(10)>>,
                          query[1], query[2], R(10), TRUE)
       \/ \E qtime \in GoodTimes, humidity \in HumidityTypes, zmin \in Zmins,
            zlevels \in ZLevels, query \in Queries, zref \in Zrefs,
            makes_files \in BOOLEAN, cached \in BOOLEAN :
            wm = IF cached
                 THEN Precached(NewModel(<<Date(1), NoEnd>>, qtime, humidity,
                                         zmin, zlevels, query[1], query[2],
                                         zref, makes_files))
                 ELSE NewModel(<<Date(1), NoEnd>>, qtime, humidity, zmin,
                               zlevels, query[1], query[2], zref, makes_files)
       \/ \E qtime \in GoodTimes, query \in FineQueries,
            earlier \in FineQueries, makes_files \in BOOLEAN :
            wm = PrecachedFor(NewModel(<<Date(1), NoEnd>>, qtime, "rh", R(-5),
                                      <<R(0), R(10)>>, query[1], query[2],
                                      R(10), makes_files),
                              earlier[1], earlier[2])

WmNext ==
    \/ Fetch
    \/ LoadStart
    \/ FindE
    \/ UniformInZ
    \/ CheckForNans
    \/ WetRefractivity
    \/ HydroRefractivity
    \/ AdjustGrid
    \/ GetZTD
    \/ Write

WmSpec == WmInit /\ [][WmNext]_vars

(***************************************************************************)
(* delay_from_files (delay.py, lines 215-242).  The rasters are known by   *)
(* their shapes; the delays themselves are those of delay_from_grid above. *)
(***************************************************************************)
\* the longest axis of a raster
MaxDim == 2

\* the shapes of the rasters: one or two axes
Shapes == UNION {[1..k -> 1..MaxDim] : k \in 1..2}

\* the call with its arguments, before line 218
FilesCall(lat, lon, ht, l, rt, par) ==
    [pc |-> "start", lat |-> lat, lon |-> lon, ht |-> ht, los |-> l,
     raytrace |-> rt, parallel |-> par, log |-> <<>>, err |-> "none",
     out |-> <<>>]

\* lines 233: lats.shape == lons.shape == hts.shape
SameShapes(c) == c.lat = c.lon /\ c.lon = c.ht

\* what util.los_to_lv can do on rasters of these shapes: with equal shapes it
\* returns, with others it returns (broadcasting) or raises
LosToLvOutcomes(c) ==
    IF SameShapes(c) THEN {"returns"} ELSE {"returns", "raises"}

\* lines 218-220
FilesOpen ==
    /\ df.pc = "start"
    /\ df' = [df EXCEPT !.pc = "los",
                        !.log = <<"gdal_open", "gdal_open", "gdal_open">>]
    /\ UNCHANGED <<delay_vars, wm, fn>>

\* lines 222-228
FilesLos ==
    /\ df.pc = "los"
    /\ \E outcome \in LosToLvOutcomes(df) :
          df' = IF df.los = "Zenith" THEN [df EXCEPT !.pc = "check"]
                ELSE IF ~df.raytrace
                THEN [df EXCEPT !.pc = "check",
                                !.log = Append(df.log, "gdal_open")]
                ELSE IF outcome = "raises"
                THEN [df EXCEPT !.pc = "raised", !.err = "ValueError",
                                !.log = df.log \o <<"gdal_open", "los_to_lv">>]
                ELSE [df EXCEPT !.pc = "check",
                                !.log = df.log \o <<"gdal_open", "los_to_lv">>]
    /\ UNCHANGED <<delay_vars, wm, fn>>

\* lines 233-236
FilesCheck ==
    /\ df.pc = "check"
    /\ df' = IF ~SameShapes(df)
             THEN [df EXCEPT !.pc = "raised", !.err = "ValueError"]
             ELSE [df EXCEPT !.pc = "grid"]
    /\ UNCHANGED <<delay_vars, wm, fn>>

\* lines 238-242: the call of delay_from_grid, which starts the workers when
\* parallel, and the reshape to the shape of lats
FilesGrid ==
    /\ df.pc = "grid"
    /\ df' = [df EXCEPT !.pc = "done",
                        !.log = df.log \o (IF df.parallel
                                           THEN <<"delay_from_grid", "_parmap">>
                                           ELSE <<"delay_from_grid">>),
                        !.out = df.lat]
    /\ UNCHANGED <<delay_vars, wm, fn>>

FilesInit ==
    /\ mode = "files"
    /\ ncpu = 1
    /\ llas = <<>>
    /\ field \in ParFields
    /\ los_in = [kind |-> "Zenith", v |-> <<>>]
    /\ raytrace = TRUE
    /\ items = <<>>
    /\ InitCommon
    /\ wm = NoModel
    /\ fn = NoApply
    /\ \E lat \in Shapes, lon \in Shapes, ht \in Shapes,
          l \in {"Zenith", "file"}, rt \in BOOLEAN, par \in BOOLEAN :
          df = FilesCall(lat, lon, ht, l, rt, par)

FilesNext ==
    \/ FilesOpen
    \/ FilesLos
    \/ FilesCheck
    \/ FilesGrid

FilesSpec == FilesInit /\ [][FilesNext]_vars

(***************************************************************************)
(* find_svp (weatherModel.py) and getHeights (dem.py) called on their own. *)
(***************************************************************************)
\* the longest array of temperatures
MaxTemps == 2

\* the arrays of temperatures, of shape (1, 1, k)
TempArrays ==
    {<<<<ts>>>> : ts \in UNION {[1..k -> Temps] : k \in 1..MaxTemps}}

\* find_svp(t) is called
SvpCall(t) == [pc |-> "call", f |-> "find_svp", t |-> t, ret |-> <<>>]

\* the call of find_svp returns
ApplyFindSvp ==
    /\ fn.pc = "call"
    /\ fn.f = "find_svp"
    /\ fn' = [fn EXCEPT !.pc = "returned", !.ret = find_svp(fn.t)]
    /\ UNCHANGED <<delay_vars, wm, df>>

\* the points of the area and the height levels of a call of getHeights
MaxPts == 3

MaxLvs == 2

\* an ndarray: its shape and its elements in C order
NdArray(shape, data) == [shape |-> shape, data |-> data]

\* the number of elements of a shape
RECURSIVE Size(_)
Size(shape) == IF shape = <<>> THEN 1 ELSE shape[1] * Size(Tail(shape))

\* a.flatten(), a.reshape(shape) of an array in C order
Flatten(a) == a.data

Reshape(a, shape) == NdArray(shape, a.data)

\* np.array(rows) of a list of equally long rows
ArrayOfRows(rows) ==
    NdArray(<<Len(rows), IF rows = <<>> THEN 0 ELSE Len(rows[1])>>,
            Concat(rows))

\* forceNDArray (lines 91-95) of a list of numbers
forceNDArray(list) == NdArray(<<Len(list)>>, list)

\* height_data of the option 'lvs' when no level is given (None); the
\* command line never gives an empty list of levels
NoLevels == <<>>

\* getHeights (lines 31-88) for the height options that read no file: 'lvs',
\* and any other option with useWeatherNodes (lines 77-80)
getHeights(lats, lons, heights, useWeatherNodes) ==
    LET height_type == heights[1]
        height_data == heights[2]
        in_shape == lats.shape
        n == Len(Flatten(lats))
        latlist == Arr([k \in 1..Len(height_data) |-> Flatten(lats)])
        lonlist == Arr([k \in 1..Len(height_data) |-> Flatten(lons)])
        hgtlist == Arr([k \in 1..Len(height_data) |->
                        Arr([i \in 1..n |-> height_data[k]])])
    IN  IF height_type = "lvs"
        THEN IF height_data # NoLevels /\ useWeatherNodes
             THEN [err |-> "none", lats |-> lats, lons |-> lons,
                   hts |-> forceNDArray(height_data)]
             ELSE IF height_data # NoLevels
             THEN [err |-> "none",
                   lats |-> Reshape(ArrayOfRows(latlist),
                                    in_shape \o <<Len(height_data)>>),
                   lons |-> Reshape(ArrayOfRows(lonlist),
                                    in_shape \o <<Len(height_data)>>),
                   hts |-> Reshape(ArrayOfRows(hgtlist),
                                   in_shape \o <<Len(height_data)>>)]
             ELSE [err |-> "RuntimeError", lats |-> lats, lons |-> lons,
                   hts |-> NoLevels]
        ELSE [err |-> "none", lats |-> lats, lons |-> lons, hts |-> NoLevels]

\* the shapes of the area: one axis, or two
PointShapes ==
    {<<n>> : n \in 1..MaxPts}
        \cup {sh \in (1..MaxPts) \X (1..MaxPts) : sh[1] * sh[2] <= MaxPts}

\* latitudes, longitudes of the points and the levels asked for
LatValues == {R(1), R(2)}

LonValues == {R(10), R(20)}

LevelValues == {R(0), R(100)}

Levels == UNION {[1..k -> LevelValues] : k \in 1..MaxLvs}

\* getHeights(lats, lons, heights, useWeatherNodes) is called
HeightsCall(lats, lons, heights, useWeatherNodes) ==
    [pc |-> "call", f |-> "getHeights", lats |-> lats, lons |-> lons,
     heights |-> heights, useWeatherNodes |-> useWeatherNodes, ret |-> <<>>]

\* the call of getHeights returns or raises
ApplyGetHeights ==
    /\ fn.pc = "call"
    /\ fn.f = "getHeights"
    /\ fn' = Bind(getHeights(fn.lats, fn.lons, fn.heights, fn.useWeatherNodes),
                  LAMBDA out :
                      [fn EXCEPT !.pc = IF out.err = "none" THEN "returned"
                                        ELSE "raised",
                                 !.ret = out])
    /\ UNCHANGED <<delay_vars, wm, df>>

FnInit ==
    /\ mode = "fn"
    /\ ncpu = 1
    /\ llas = <<>>
    /\ field \in ParFields
    /\ los_in = [kind |-> "Zenith", v |-> <<>>]
    /\ raytrace = TRUE
    /\ items = <<>>
    /\ InitCommon
    /\ wm = NoModel
    /\ df = NoFiles
    /\ \/ \E t \in TempArrays : fn = SvpCall(t)
       \/ \E shape \in PointShapes, useWeatherNodes \in BOOLEAN :
            \E la \in [1..Size(shape) -> LatValues],
               lo \in [1..Size(shape) -> LonValues],
               heights \in ({"lvs"} \X (Levels \cup {NoLevels}))
                               \cup {<<"dem", NoLevels>>} :
               /\ heights[1] = "dem" => useWeatherNodes
               /\ fn = HeightsCall(NdArray(shape, la), NdArray(shape, lo),
                                   heights, useWeatherNodes)

FnNext ==
    \/ ApplyFindSvp
    \/ ApplyGetHeights

FnSpec == FnInit /\ [][FnNext]_vars

(***************************************************************************)
(* The claims.                                                             *)
(***************************************************************************)
Terminated(w) == wk[w].pc \in {"done", "dead"}

Busy(w) == wk[w].pc \in {"call", "scale", "integ"}

\* C1: for N >= 1 rays, delay_from_grid with parallel=True returns exactly
\* the hydrostatic and wet arrays that parallel=False returns for the same
\* inputs, whatever the core count and the interleaving of the workers.
C1_ParallelEqualsSequential ==
    (mode = "par" /\ Len(llas) >= 1 /\ pc \in {"done", "raised"})
        => /\ pc = "done"
           /\ SeqOutcome.ok
           /\ hydro = SeqOutcome.hydro
           /\ wet = SeqOutcome.wet

\* the index ranges of the jobs of one kind, in job order
KindRanges(kind) ==
    LET ks == {k \in 0..(NItems - 1) :
                  Item(k).err = "none" /\ Item(k).elem.type = kind}
        RECURSIVE Build(_)
        Build(k) ==
            IF k >= NItems THEN <<>>
            ELSE (IF k \in ks THEN <<Item(k).elem>> ELSE <<>>) \o Build(k + 1)
    IN  Build(0)

\* contiguous, disjoint ranges whose union is [0, n)
Partitions(rs, n) ==
    /\ Len(rs) >= 1
    /\ rs[1].start = 0
    /\ rs[Len(rs)].end = n
    /\ \A k \in 1..Len(rs) : rs[k].start <= rs[k].end
    /\ \A k \in 1..(Len(rs) - 1) : rs[k].end = rs[k + 1].start

\* C2: with parallel=True, for every core count n >= 1 and every N, once the
\* jobs are built the 'hydro' jobs and the 'wet' jobs are each contiguous
\* disjoint ranges whose union is [0, N), n \div 2 of them hydro and the
\* other n - n \div 2 wet.
C2_JobsPartitionTheRays ==
    (mode = "par" /\ pc # "enqueue")
        => /\ nq = ncpu
           /\ \A k \in 0..(ncpu - 1) : Item(k).err = "none"
           /\ Len(KindRanges("hydro")) = ncpu \div 2
           /\ Len(KindRanges("wet")) = ncpu - (ncpu \div 2)
           /\ Partitions(KindRanges("hydro"), Len(llas))
           /\ Partitions(KindRanges("wet"), Len(llas))

\* C3: when the worker function raises on a work item, _parmap does not
\* return normally with that item's answer slot still None.
C3_NoEmptySlotAfterFailure ==
    pc = "returned"
        => \A w \in 1..ncpu :
              wk[w].pc = "dead" => answers[wk[w].idx + 1].set

\* C4: _parmap returns only after every worker thread it started has
\* terminated, and once the items are queued and the threads are being
\* started it does return, also with fewer items than workers or none.
C4_ParmapJoinsAndReturns ==
    /\ [](pc = "returned" => \A w \in 1..ncpu : Terminated(w))
    /\ (pc = "spawn") ~> (pc = "returned")

\* C4 witness: _parmap has returned from a call with fewer items than
\* workers, some of which found the queue empty at once.
C4_Witness ==
    /\ pc = "returned"
    /\ Len(answers) >= 1
    /\ Len(answers) < ncpu
    /\ \A w \in 1..ncpu : Terminated(w)

\* C5: under every interleaving each queued item is dequeued once, f is
\* applied to it once, each slot is written at most once and only by the
\* worker that dequeued its item, and when _parmap returns answers[i] is
\* f of the i-th item for every item on which f returns.
C5_EachItemOnceInItsSlot ==
    /\ \A i \in 1..Len(answers) :
          /\ deq[i] <= 1
          /\ app[i] <= deq[i]
          /\ wr[i] <= app[i]
          /\ answers[i].set <=> wr[i] = 1
          /\ deq[i] = 0 <=> \E k \in 1..Len(q) : q[k][1] = i - 1
    /\ \A k \in 1..Len(q) : q[k][2] = Item(q[k][1]).elem
    /\ \A w \in 1..ncpu :
          Busy(w) => /\ wk[w].elem = Item(wk[w].idx).elem
                     /\ ~answers[wk[w].idx + 1].set
                     /\ \A v \in 1..ncpu :
                           (v # w /\ Busy(v)) => wk[v].idx # wk[w].idx
    /\ pc = "returned"
          => /\ Len(answers) = NItems
             /\ \A i \in 1..Len(answers) :
                   /\ deq[i] = 1
                   /\ app[i] = 1
                   /\ los_in.kind # "vecs"
                         => /\ answers[i].set <=> FOf(i - 1).err = "none"
                            /\ answers[i].set
                                  => answers[i].val = FOf(i - 1).delays

\* a _common_delay call of the sequential delay_from_grid has returned
Called == mode = "seq" /\ cd.err = "none"

\* the path length of ray i of that call
RayLength(i) == VNorm(cd.look_vecs[i])

\* the interpolated values of ray i of that call
RayValues(i) == Slice(cd.values, cd.indices[i], cd.steps[i])

\* C6: every ray of path length L > 0 gets ceil(L / step) samples, the first
\* at path coordinate 0 and the last at path coordinate exactly L.
C6_SamplesSpanTheRay ==
    Called =>
        \A i \in 1..Len(cd.steps) :
            RLt(R(0), RayLength(i)) =>
                /\ cd.steps[i] = RCeil(RDiv(RayLength(i), R(Step)))
                /\ Len(cd.t_points[i]) = cd.steps[i]
                /\ cd.t_points[i][1] = R(0)
                /\ cd.t_points[i][Len(cd.t_points[i])] = RayLength(i)

\* C7 as stated: a ray of path length 0 yields exactly one sample and a
\* delay of exactly 0, with no error and no NaN.
C7_ZeroLengthOneSample ==
    (mode = "seq" /\ cd.err # "nocall" /\ Len(llas) >= 1) =>
        /\ cd.err = "none"
        /\ \A i \in 1..Len(cd.steps) :
              RayLength(i) = R(0) =>
                  /\ cd.steps[i] = 1
                  /\ Len(cd.t_points[i]) = 1
                  /\ cd.delays[i] = R(0)

\* C7, amended: a ray of path length 0 yields no sample at all and a delay of
\* exactly 0, with no error and no NaN.
C7_ZeroLengthNoSample ==
    (mode = "seq" /\ cd.err # "nocall" /\ Len(llas) >= 1) =>
        /\ cd.err = "none"
        /\ \A i \in 1..Len(cd.steps) :
              RayLength(i) = R(0) =>
                  /\ cd.steps[i] = 0
                  /\ cd.t_points[i] = <<>>
                  /\ RayValues(i) = <<>>
                  /\ cd.delays[i] = R(0)

\* C7 witness: a call has returned a delay of 0 for a ray of path length 0
\* next to a ray of positive length.
C7_Witness ==
    /\ Called
    /\ \E i, j \in 1..Len(cd.steps) :
          /\ RayLength(i) = R(0)
          /\ cd.delays[i] = R(0)
          /\ RLt(R(0), RayLength(j))

\* C8: whatever the number of samples of a ray, when the interpolation gives
\* NaN for at least one of them the delay of that ray is NaN, and the call
\* raises nothing.
C8_NaNSamplePropagates ==
    (mode = "seq" /\ cd.err # "nocall" /\ Len(llas) >= 1) =>
        /\ cd.err = "none"
        /\ \A i \in 1..Len(cd.steps) :
              (\E k \in 1..Len(RayValues(i)) : IsNaN(RayValues(i)[k]))
                  => IsNaN(cd.delays[i])

\* C9: for Zenith rays through a field of constant refractivity N the delay
\* of the ray from height h is N * (reference height - h), in units of 1e-6.
C9_ConstantFieldExact ==
    (mode = "seq" /\ pc = "done" /\ los_in.kind = "Zenith"
        /\ field.slope = 0 /\ field.nanlo > field.nanhi) =>
        \A i \in 1..Len(llas) :
            /\ hydro[i] = RMul(R(field.c + 1), RSub(R(Zref), llas[i][3]))
            /\ wet[i] = RMul(R(field.c), RSub(R(Zref), llas[i][3]))

\* C10: with raytrace and explicit look vectors, after line 48 every look
\* vector is a positive multiple of the supplied one whose vertical
\* component is the reference height minus the height of its point.
C10_RescaledToReferenceHeight ==
    (Called /\ los_in.kind = "vecs") =>
        \A i \in 1..Len(llas) :
            /\ RLt(R(0), RDiv(cd.look_vecs[i][3], los_in.v[i][3]))
            /\ cd.look_vecs[i] =
                   VScale(los_in.v[i],
                          RDiv(cd.look_vecs[i][3], los_in.v[i][3]))
            /\ cd.look_vecs[i][3] = RSub(R(Zref), llas[i][3])

\* the zenith-path integrals of the points of the call for one kind
ZenithIntegral(kind) ==
    Integrate(field, kind, Lats, Lons, Hts, ZenithLook(Lats, Lons, Hts),
              <<>>).delays

\* C11: with raytrace=False the delay of each point is the zenith-path
\* integral at that point times 1 / cos(its incidence angle), and the rays
\* are the zenith rays: the line-of-sight values give the factor only.
C11_CosineOfZenithIntegral ==
    (mode = "seq" /\ pc = "done" /\ ~raytrace) =>
        /\ cd.look_vecs = ZenithLook(Lats, Lons, Hts)
        /\ los = los_in
        /\ \A i \in 1..Len(llas) :
              /\ hydro[i] = RMul(ZenithIntegral("hydro")[i],
                                 RDiv(R(1), Cosd(los_in.v[i])))
              /\ wet[i] = RMul(ZenithIntegral("wet")[i],
                               RDiv(R(1), Cosd(los_in.v[i])))

\* C11 witness: a call without raytrace has returned, for a point seen
\* under 60 degrees, twice its non-zero zenith integral.
C11_Witness ==
    /\ mode = "seq"
    /\ pc = "done"
    /\ ~raytrace
    /\ \E i \in 1..Len(llas) :
          /\ los_in.v[i] = 60
          /\ RLt(R(0), ZenithIntegral("wet")[i])
          /\ wet[i] = RMul(R(2), ZenithIntegral("wet")[i])

\* the cache path of a load on the model w (line 187)
CachePath(w) == out_file(w, Given(w.outLats), Given(w.outLons))

\* load is called on w and finds its cache path on disk
CacheHit(w) ==
    /\ w.pc \in {"fetched", "fetch_raised", "loaded", "written"}
    /\ w.nload < MaxLoads
    /\ out_file_error(w, Given(w.outLats)) = "none"
    /\ CachePath(w) \in w.disk

\* C12: when the prepared-grid file of the query is on disk already, load
\* returns the path of that file and runs no stage of the pipeline:
\* load_weather is not called, and P, T, E, the latitudes and longitudes, the
\* z levels, the refractivities and the zenith delays stay as they were.
C12_CacheHitRunsNothing ==
    [][CacheHit(wm) =>
          /\ wm'.pc = "hit"
          /\ wm'.ret = CachePath(wm)
          /\ wm'.log = <<>>
          /\ GridFields(wm') = GridFields(wm)
          /\ wm'.q = wm.q /\ wm'.rh = wm.rh]_vars

\* a second load that is a cache hit on a model whose grid is loaded
C12_Witness == wm.pc = "hit" /\ wm.nload = 2 /\ wm.p # <<>> /\ wm.wet_ztd # <<>>

\* the stages of load in the order of lines 201-212
Pipeline ==
    <<"load_weather", "find_e", "uniform_in_z", "checkForNans",
      "get_wet_refractivity", "get_hydro_refractivity", "adjust_grid",
      "getZTD">>

\* C13 as stated: a load that finds no prepared grid runs the whole pipeline
\* in order and leaves the prepared grid on disk under the cache path.
C13_LoadPersists ==
    wm.pc = "loaded" => wm.log = Pipeline /\ wm.out_name \in wm.disk

\* C13: a load that finds no prepared grid runs the whole pipeline in order
\* and returns None with nothing written; write puts the prepared grid under
\* the cache path, and a load with the same outLats and outLons (not None)
\* that follows the write is a cache hit.
C13_WritePersists ==
    [][/\ wm'.pc = "loaded" =>
             /\ wm'.log = Pipeline
             /\ wm'.ret = <<>>
             /\ wm'.out_name \notin wm'.disk
       /\ wm'.pc = "written" => wm'.out_name \in wm'.disk
       /\ (wm.pc = "written" /\ wm.outLats # <<>>
             /\ wm'.nload = wm.nload + 1) =>
             wm'.pc = "hit" /\ wm'.ret = wm.out_name]_vars

\* a load that ran the pipeline, a write, and the same load again
C13_Witness ==
    /\ wm.pc = "hit"
    /\ wm.nload = 2
    /\ wm.outLats # <<>>
    /\ wm.out_name \in wm.disk
    /\ wm.zs # <<>>


\* the load in progress has run the stage
Did(stage) == \E i \in 1..Len(wm.log) : wm.log[i] = stage

\* C14: after _uniform_in_z and after every later stage of the pipeline
\* (_checkForNans, the refractivities, _adjust_grid with _trimExtent,
\* _getZTD), P, T, E, the latitudes and the longitudes, and the wet and the
\* hydrostatic refractivity once they are derived, have one 3-D shape, and
\* its third axis is as long as the z levels.
C14_FieldsShareShape ==
    Did("uniform_in_z") =>
        /\ Shape(wm.t) = Shape(wm.p)
        /\ Shape(wm.e) = Shape(wm.p)
        /\ Shape(wm.lats) = Shape(wm.p)
        /\ Shape(wm.lons) = Shape(wm.p)
        /\ Did("get_wet_refractivity") => Shape(wm.wet) = Shape(wm.p)
        /\ Did("get_hydro_refractivity") => Shape(wm.hyd) = Shape(wm.p)
        /\ Shape(wm.p)[3] = Len(wm.zs)

\* a load that padded the grid at zmin and trimmed its rows
C14_Witness ==
    /\ wm.pc = "loaded"
    /\ Len(wm.zs) = Len(wm.zlevels) + 1
    /\ Len(wm.p) < MaxRows


\* C15: after the NaN-fill stage of load no NaN is left in P, T, E, the
\* latitudes or the longitudes, each of them having a value that is not NaN.
C15_NoNaNAfterFill ==
    (/\ Did("checkForNans")
     /\ HasFinite(wm.p) /\ HasFinite(wm.t) /\ HasFinite(wm.e)
     /\ HasFinite(wm.lats) /\ HasFinite(wm.lons)) =>
        /\ ~HasNaN(wm.p) /\ ~HasNaN(wm.t) /\ ~HasNaN(wm.e)
        /\ ~HasNaN(wm.lats) /\ ~HasNaN(wm.lons)


\* every column of the field new is the column of old that lies o1 rows and
\* o3 columns further on, with its lowest value said again below it
PaddedFrom(new, old, o1, o3) ==
    \A y \in 1..Len(new) : \A x \in 1..Len(new[y]) :
        new[y][x] = <<old[y + o1][x + o3][1]>> \o old[y + o1][x + o3]

\* C16: when zmin lies below the lowest z level, _adjust_grid puts exactly one
\* new level, at zmin, below the others, and in every column that it keeps
\* each of P, T, E, latitude, longitude, wet and hydrostatic refractivity has
\* at the new level the column's value of the level that was lowest, with the
\* levels above as they were; when zmin is not below the lowest level the
\* levels and the fields stay as they are.
C16_FloorLevelDuplicatesLowest ==
    [][wm.pc = "adjust_grid" =>
          IF RLt(wm.zmin, wm.zs[1])
          THEN /\ wm'.zs = <<wm.zmin>> \o wm.zs
               /\ \E o1 \in 0..(Len(wm.p) - Len(wm'.p)),
                     o3 \in 0..(Len(wm.p[1]) - Len(wm'.p[1])) :
                     /\ PaddedFrom(wm'.p, wm.p, o1, o3)
                     /\ PaddedFrom(wm'.t, wm.t, o1, o3)
                     /\ PaddedFrom(wm'.e, wm.e, o1, o3)
                     /\ PaddedFrom(wm'.lats, wm.lats, o1, o3)
                     /\ PaddedFrom(wm'.lons, wm.lons, o1, o3)
                     /\ PaddedFrom(wm'.wet, wm.wet, o1, o3)
                     /\ PaddedFrom(wm'.hyd, wm.hyd, o1, o3)
          ELSE /\ wm'.zs = wm.zs
               /\ GridFields(wm') = GridFields(wm)]_vars

\* _adjust_grid has added the level at zmin below a grid of three levels
C16_Witness ==
    /\ wm.pc = "getZTD"
    /\ Len(wm.zs) = 4
    /\ wm.zs[1] = wm.zmin
    /\ RLt(wm.zs[1], wm.zs[2])


\* the extent of the query of load, as _adjust_grid hands it to _trimExtent
QueryExtent == getExtent(wm.outLats, wm.outLons)

\* the rows o1 + 1 .. o1 + n kept of ny rows hold the rows first..last and
\* two more on either side, or reach the edge of the grid
KeepsPadding(o1, n, first, last, ny) ==
    /\ o1 + 1 <= (IF first - 2 > 1 THEN first - 2 ELSE 1)
    /\ o1 + n >= (IF last + 2 < ny THEN last + 2 ELSE ny)

\* C17: _trimExtent keeps every row and every column of the grid that has a
\* node strictly inside the extent and at least two more rows and columns on
\* each of the four sides, fewer only at an edge of the grid, and cuts every
\* field with the same window.
C17_TrimKeepsTwoCellPadding ==
    [][(/\ wm.pc = "adjust_grid"
        /\ RLt(wm.zmin, wm.zs[1])
        /\ wm.outLats # <<>>
        /\ MaskRows(wm, QueryExtent) # {}) =>
          \E o1 \in 0..(Len(wm.p) - Len(wm'.p)),
             o3 \in 0..(Len(wm.p[1]) - Len(wm'.p[1])) :
             /\ KeepsPadding(o1, Len(wm'.p), SetMin(MaskRows(wm, QueryExtent)),
                             SetMax(MaskRows(wm, QueryExtent)), Len(wm.p))
             /\ KeepsPadding(o3, Len(wm'.p[1]),
                             SetMin(MaskCols(wm, QueryExtent)),
                             SetMax(MaskCols(wm, QueryExtent)), Len(wm.p[1]))
             /\ PaddedFrom(wm'.p, wm.p, o1, o3)
             /\ PaddedFrom(wm'.t, wm.t, o1, o3)
             /\ PaddedFrom(wm'.e, wm.e, o1, o3)
             /\ PaddedFrom(wm'.lats, wm.lats, o1, o3)
             /\ PaddedFrom(wm'.lons, wm.lons, o1, o3)
             /\ PaddedFrom(wm'.wet, wm.wet, o1, o3)
             /\ PaddedFrom(wm'.hyd, wm.hyd, o1, o3)]_vars


\* the column ztd holds, level by level, the trapezoidal integral of the
\* profile n over the heights zs from the level to the top
CumulativeFromTop(ztd, n, zs) ==
    /\ Len(ztd) = Len(zs)
    /\ ztd[Len(zs)] = R(0)
    /\ \A l \in 1..(Len(zs) - 1) :
          ztd[l] = RAdd(ztd[l + 1],
                        RMul(RDiv(RAdd(n[l], n[l + 1]), R(2)),
                             RSub(zs[l + 1], zs[l])))

C19_UnknownHumidityRaisesFirst ==
    [][/\ (wm.pc = "find_e" /\ wm.humidity \notin {"rh", "q"}) =>
             /\ wm'.pc = "raised"
             /\ wm'.err = "RuntimeError"
             /\ wm'.e = wm.e /\ wm'.q = wm.q /\ wm'.rh = wm.rh
             /\ wm'.log = <<"load_weather">>
             /\ GridFields(wm') = GridFields(wm)
       /\ wm.pc = "raised" =>
             wm'.log = wm.log /\ GridFields(wm') = GridFields(wm)]_vars

\* load has raised the error of _find_e on a model that stores q
C19_Witness ==
    /\ wm.pc = "raised"
    /\ wm.err = "RuntimeError"
    /\ wm.humidity = "sh"
    /\ wm.q # <<>>
    /\ wm.wet = <<>>


\* the query time lies before the start of the valid range, after its end
\* (an end other than None and 'Present' being set), or after the current
\* time less the lag time
TimeRefused(w) ==
    \/ w.qtime < w.valid_range[1].v
    \/ /\ Len(w.valid_range) > 1
       /\ w.valid_range[2].kind = "date"
       /\ w.qtime > w.valid_range[2].v
    \/ w.qtime > w.now - LagTime

\* C20: fetch raises an error, with _fetch not called and the model time as
\* it was, when the query time is refused; for any other time it sets the
\* model time and calls _fetch exactly once.
C20_FetchChecksTime ==
    wm.pc \notin {"off", "new"} =>
        IF TimeRefused(wm)
        THEN wm.ferr # "none" /\ wm.nfetch = 0 /\ wm.time = -1
        ELSE wm.ferr = "none" /\ wm.nfetch = 1 /\ wm.time = wm.qtime


\* the call has started the step
Started(step) == \E i \in 1..Len(df.log) : df.log[i] = step

\* C21: delay_from_files raises an error when the latitude, longitude and
\* height inputs do not all have one shape, and raises it before a
\* line-of-sight conversion or a delay computation on them has started and
\* before a worker is dispatched.
C21_ShapeErrorBeforeAnyWork ==
    ~SameShapes(df) =>
        /\ ~Started("los_to_lv")
        /\ ~Started("delay_from_grid")
        /\ ~Started("_parmap")
        /\ df.pc \notin {"grid", "done"}


\* find_svp has returned
SvpReturned == fn.pc = "returned" /\ fn.f = "find_svp"

\* C22: find_svp returns the value of the water phase for every T >= 273.15 K,
\* T = 273.15 K itself included, and the value of the ice phase for every
\* T <= 250.15 K, T = 250.15 K itself included: the blended value of the band
\* meets the value of the pure phase at either end of the band.
C22_PurePhaseOutsideBand ==
    SvpReturned =>
        \A k \in 1..Len(fn.t[1][1]) :
            LET t == fn.t[1][1][k]
            IN  /\ RLe(SvpT1, t) =>
                      fn.ret[1][1][k] = AsFloat32(RMul(Svpw(t), R(100)))
                /\ RLe(t, SvpT2) =>
                      fn.ret[1][1][k] = AsFloat32(RMul(Svpi(t), R(100)))

\* find_svp has returned for the two ends of the band, where the value of the
\* water phase and that of the ice phase differ at the lower end
C22_Witness ==
    /\ SvpReturned
    /\ fn.t = <<<<<<SvpT2, SvpT1>>>>>>
    /\ Svpw(SvpT2) # Svpi(SvpT2)
    /\ ~IsNaN(fn.ret[1][1][1])

\* the weight of line 940
Weight(t) == RDiv(RSub(t, SvpT2), RSub(SvpT1, SvpT2))

\* t lies strictly between 250.15 K and 273.15 K
InBand(t) == RLt(SvpT2, t) /\ RLt(t, SvpT1)

\* C26 as stated: for T strictly between 250.15 K and 273.15 K find_svp
\* returns ice + (water - ice) * w with w = (T - 250.15) / (273.15 - 250.15).
C26_LinearBlend ==
    SvpReturned =>
        \A k \in 1..Len(fn.t[1][1]) :
            LET t == fn.t[1][1][k]
            IN  InBand(t) =>
                   fn.ret[1][1][k] =
                      AsFloat32(RMul(
                          RAdd(Svpi(t),
                               RMul(RSub(Svpw(t), Svpi(t)), Weight(t))),
                          R(100)))

\* C26: for T strictly between 250.15 K and 273.15 K find_svp returns
\* ice + (water - ice) * w^2 with w = (T - 250.15) / (273.15 - 250.15): the
\* weight of the water phase is the square of the linear weight.
C26_SquaredBlend ==
    SvpReturned =>
        \A k \in 1..Len(fn.t[1][1]) :
            LET t == fn.t[1][1][k]
            IN  InBand(t) =>
                   fn.ret[1][1][k] =
                      AsFloat32(RMul(
                          RAdd(Svpi(t),
                               RMul(RSub(Svpw(t), Svpi(t)),
                                    RMul(Weight(t), Weight(t)))),
                          R(100)))

\* find_svp has returned for a temperature a quarter of the way up the band
C26_Witness ==
    /\ SvpReturned
    /\ \E k \in 1..Len(fn.t[1][1]) :
          /\ Weight(fn.t[1][1][k]) = Mk(1, 4)
          /\ fn.ret[1][1][k] = Mk(1055, 8)


\* the line of sight of point k alone, as the caller passed it
LosOf(k) ==
    IF los_in.kind = "Zenith" THEN los_in
    ELSE [kind |-> los_in.kind, v |-> <<los_in.v[k]>>]

\* the delay of point k of the input: what hydrostatic_delay or wet_delay
\* gives for that point and its line of sight alone
PointDelay(kind, k) ==
    KindDelay(field, kind, <<Lats[k]>>, <<Lons[k]>>, <<Hts[k]>>, LosOf(k),
              raytrace).delays[1]

\* C23: delay_from_grid returns a hydrostatic and a wet array with one
\* element for each point of the input (the shape of the input without its
\* last axis), element k of each being the delay of point k, in sequential
\* and in parallel mode.
C23_OutputsShapedLikeInput ==
    (mode \in {"seq", "par"} /\ Len(llas) >= 1 /\ pc \in {"done", "raised"})
        => /\ pc = "done"
           /\ Len(hydro) = Len(llas)
           /\ Len(wet) = Len(llas)
           /\ \A k \in 1..Len(llas) :
                 /\ hydro[k] = PointDelay("hydro", k)
                 /\ wet[k] = PointDelay("wet", k)


\* the kind of the _common_delay call that cd holds
CalledKind == IF pc = "wet" THEN "hydro" ELSE "wet"

\* ray i of that call integrated on its own: its point, its look vector and
\* its cosine correction alone
RayAlone(i) ==
    Integrate(field, CalledKind, <<Lats[i]>>, <<Lons[i]>>, <<Hts[i]>>,
              <<cd.look_vecs[i]>>,
              IF raytrace THEN <<>>
              ELSE <<RDiv(R(1), Cosd(los_in.v[i]))>>)

\* C24: in _common_delay the offset of ray 0 is 0 and the offset of ray i is
\* the number of samples of the rays before it, so that the slices
\* [offset_i, offset_i + count_i) lie one after the other and cover the
\* buffer of samples exactly; ray i has count_i samples, and its integral
\* is taken over its own samples only: its values and its delay are those
\* of the ray computed alone, whatever the other rays hold.
C24_OffsetsPartitionTheBuffer ==
    Called =>
        /\ cd.indices[1] = 0
        /\ \A i \in 2..Len(cd.steps) :
              cd.indices[i] = cd.indices[i - 1] + cd.steps[i - 1]
        /\ Len(cd.values)
              = cd.indices[Len(cd.steps)] + cd.steps[Len(cd.steps)]
        /\ \A i \in 1..Len(cd.steps) :
              /\ Len(cd.t_points[i]) = cd.steps[i]
              /\ Cut(cd.values, cd.indices[i], cd.indices[i] + cd.steps[i])
                    = RayAlone(i).values
              /\ cd.delays[i] = RayAlone(i).delays[1]

\* a call on two rays of two samples or more, one with a NaN among its
\* samples and a NaN delay, the other with a delay that is a number
C24_Witness ==
    /\ Called
    /\ Len(cd.steps) = 2
    /\ \E i, j \in 1..2 :
          /\ i # j
          /\ cd.steps[i] >= 2 /\ cd.steps[j] >= 2
          /\ \E k \in 1..cd.steps[i] : IsNaN(cd.values[cd.indices[i] + k])
          /\ IsNaN(cd.delays[i])
          /\ IsFinite(cd.delays[j])


\* C28: delay_from_grid, wet_delay and hydrostatic_delay leave their
\* callers' arrays as they were: the line-of-sight array holds after the
\* call, and at every moment of it, the values the caller passed, so that
\* every delay computation on it sees the same look vectors.
C28_InputsNotModified ==
    mode \in {"seq", "par"} => los = los_in


\* the coordinates among cs that lie strictly between lo and hi
Between(cs, lo, hi) ==
    {cs[k] : k \in {j \in 1..Len(cs) : RLt(lo, cs[j]) /\ RLt(cs[j], hi)}}

\* every coordinate of cs lies within pad cells of size res of one of ins
WithinMargin(cs, ins, pad, res) ==
    \A k \in 1..Len(cs) :
        /\ RLe(RSub(NanMin(ins), R(pad * res)), cs[k])
        /\ RLe(cs[k], RAdd(NanMax(ins), R(pad * res)))

\* C25: when load is given query latitudes and longitudes, the grid that
\* _adjust_grid leaves is trimmed to the rows and columns of the region of
\* interest and the margin of two cells around them, whether a level at zmin
\* was added or not.
C25_TrimmedWithOrWithoutFloor ==
    (/\ Did("adjust_grid")
     /\ wm.outLats # <<>>
     /\ Between(wm.ys, QueryExtent[1], QueryExtent[2]) # {}
     /\ Between(wm.xs, QueryExtent[3], QueryExtent[4]) # {}) =>
        /\ WithinMargin(wm.ys, Between(wm.ys, QueryExtent[1], QueryExtent[2]),
                        TrimPad, LatRes)
        /\ WithinMargin(wm.xs, Between(wm.xs, QueryExtent[3], QueryExtent[4]),
                        TrimPad, LonRes)


\* C30: _adjust_grid is idempotent: after one call the lowest z level is at
\* or below zmin, and a second call with the same arguments adds no level
\* and leaves the z levels and P, T, E, latitude, longitude and the
\* refractivities as they are.
C30_AdjustGridIdempotent ==
    wm.pc = "getZTD" =>
        /\ RLe(NanMin(Values1(wm.zs)), wm.zmin)
        /\ adjust_grid(wm).zs = wm.zs
        /\ GridFields(adjust_grid(wm)) = GridFields(wm)
        /\ adjust_grid(wm).xs = wm.xs /\ adjust_grid(wm).ys = wm.ys

\* _adjust_grid has added the level at zmin and trimmed the rows
C30_Witness ==
    /\ wm.pc = "getZTD"
    /\ wm.zs[1] = wm.zmin
    /\ Len(wm.zs) = Len(wm.zlevels) + 1
    /\ Len(wm.p) < MaxRows


\* the buffered bounding box of the query of w
QueryBounds(w) == get_ll_bounds(w, Given(w.outLats), Given(w.outLons), Nextra)

\* the box a = (lat_min, lat_max, lon_min, lon_max) contains the box b
Contains(a, b) ==
    /\ RLe(a[1], b[1]) /\ RLe(b[2], a[2])
    /\ RLe(a[3], b[3]) /\ RLe(b[4], a[4])

\* the name of the file on disk that was made for the box origin
OriginName(w) == make_weather_model_filename(Name, w.qtime, w.origin)

\* C29: when load reports a cache hit the file it found was made for the
\* same model and time and for a buffered bounding box that contains that of
\* the query, and the queries of two boxes neither of which contains the
\* other never have the same cache file name.
C29_CacheHitCoversTheQuery ==
    (wm.origin # <<>> /\ wm.out_name # <<>>) =>
        /\ (wm.pc = "hit" /\ wm.ret = OriginName(wm)) =>
               /\ wm.ret[1] = Name /\ wm.ret[2] = wm.time
               /\ Contains(wm.origin, QueryBounds(wm))
        /\ (~Contains(wm.origin, QueryBounds(wm))
               /\ ~Contains(QueryBounds(wm), wm.origin)) =>
               OriginName(wm) # wm.out_name


\* element (pt, k) of an array of shape in_shape + (L,): point pt of the area
\* in C order, level k, both counted from 1
AtPoint(a, pt, k, nlevels) == a.data[(pt - 1) * nlevels + k]

\* getHeights has returned for 'lvs' with levels and without useWeatherNodes
LevelsReturned ==
    /\ fn.pc = "returned"
    /\ fn.f = "getHeights"
    /\ fn.heights[1] = "lvs"
    /\ ~fn.useWeatherNodes

\* C27: for 'lvs' with L levels and useWeatherNodes false getHeights returns
\* arrays of shape in_shape + (L,) that hold at (pt, k) the latitude and the
\* longitude of point pt of the input and the k-th level asked for.
C27_EveryLevelAtEveryPoint ==
    LevelsReturned =>
        /\ fn.ret.lats.shape = fn.lats.shape \o <<Len(fn.heights[2])>>
        /\ fn.ret.lons.shape = fn.lats.shape \o <<Len(fn.heights[2])>>
        /\ fn.ret.hts.shape = fn.lats.shape \o <<Len(fn.heights[2])>>
        /\ \A pt \in 1..Size(fn.lats.shape), k \in 1..Len(fn.heights[2]) :
              /\ AtPoint(fn.ret.lats, pt, k, Len(fn.heights[2]))
                     = fn.lats.data[pt]
              /\ AtPoint(fn.ret.lons, pt, k, Len(fn.heights[2]))
                     = fn.lons.data[pt]
              /\ AtPoint(fn.ret.hts, pt, k, Len(fn.heights[2]))
                     = fn.heights[2][k]

====
